---- MODULE Spec2Model ----
(***************************************************************************)
(* A model of the keyed time-series engine (src/src/timeseries.rs), of the *)
(* publication-diff builder (src/src/bin/rki_diff.rs) and of the record     *)
(* loaders of the streamer pipeline (src/src/bin/to_influx.rs).             *)
(*                                                                         *)
(* Dates are whole day numbers (days since 1970-01-01); a slot is the 0-    *)
(* based index of a day in a calendar.  A Rust Vec is a TLA+ sequence, so   *)
(* slot i of a vector v is v[i + 1].  Option<T> is a set with at most one   *)
(* element.                                                                *)
(***************************************************************************)
EXTENDS Integers, Sequences, FiniteSets, TLC

VARIABLES
    cal,            \* SpecCalendar: the calendar under test and the last call made on it
    pc,             \* SpecDiff: position of rki_diff's main()
    datafile,       \* SpecDiff: the diff artifact on disk (argv[1])
    original,       \* SpecDiff: the diff artifact as the run found it
    counters,       \* SpecDiff: main()'s PartialDiffData
    found_anything, \* SpecDiff: main()'s found_anything
    argc,           \* SpecDiff: number of (snapshot, date) pairs in argv[2..]
    pair,           \* SpecDiff: number of pairs main()'s loop has finished
    snapshot,       \* SpecDiff: the records of the snapshot file of the current pair
    date,           \* SpecDiff: publication date minus one day of the current pair
    pos,            \* SpecDiff: number of records of the snapshot merge_new has consumed
    pass_start,     \* SpecDiff: the PartialDiffData when merge_new was entered
    before,         \* SpecDiff: the PartialDiffData before the last record was merged
    ingest,         \* SpecIngest: the stores of to_influx's loaders and the last record
    series,         \* SpecSeries: a store, the calls made on it and the store they began with
    store,          \* SpecStore: a store under arbitrary calls, and the last call
    group,          \* SpecGroup: a CounterGroup and the series it was built from
    line,           \* SpecReadout: a string or instant handed to the line-protocol encoder, and its output
    client,         \* SpecClient: a response to Client::post and the result post returns
    streamer,       \* SpecStreamer: the field views, the position and the output of stream()
    historic,       \* SpecHistoric: a sorted slice and the summary made of it
    agegroup,       \* SpecAgeGroup: an age group, its text and the text parsed back
    regroup,        \* SpecRegroup: a d1 store, a key map and the two groups derived from them
    priming,        \* SpecPriming: a run of rki_diff that primes and merges one snapshot
    parboiled       \* SpecLoadDiff: the ParboiledCaseData of to_influx and the diff rows loaded into it

calVars == <<cal>>
diffVars ==
    <<pc, datafile, original, counters, found_anything, argc, pair, snapshot, date, pos,
      pass_start, before>>
ingestVars == <<ingest>>
engineVars == <<series, store, group>>
toolVars == <<line, client, streamer, historic, agegroup, regroup, priming, parboiled>>
vars ==
    <<cal, pc, datafile, original, counters, found_anything, argc, pair, snapshot, date, pos,
      pass_start, before, ingest, series, store, group, line, client, streamer, historic,
      agegroup, regroup, priming, parboiled>>

----------------------------------------------------------------------------
(* Bounds of the model.                                                     *)

\* Number of day slots of the calendar of the diff builder and the loaders.
NumDays == 2
\* Largest magnitude of a count carried by a record or an artifact row.
MaxCount == 2
\* Largest number of rows of the artifact found on disk.
MaxRows == 1
\* Largest calendar length, and distance outside the calendar, in SpecCalendar.
MaxCalLen == 4
\* Largest number of records submitted in a run of SpecIngest.
MaxIngest == 2
\* Largest length of a series, and largest value of a slot, in SpecSeries.
MaxSeriesLen == 4
MaxVal == 2
\* Largest length of a string handed to the encoder in SpecReadout.
MaxNameLen == 3
\* Number of days of the calendar of a cooked store in SpecStreamer.
StreamDays == 7
\* Largest number of samples of a month in SpecHistoric.
MaxSamples == 4
MaxRegroupKeys == 3
LoadDays == 8
MaxDiffRows == 2
MaxAge == 100
\* Number of day slots of the store, and number of calls of a run, in SpecStore.
StoreLen == 2
MaxCalls == 3
\* Largest length of the series a CounterGroup is built from, in SpecGroup.
GroupLen == 9

----------------------------------------------------------------------------
(* Option<T>.                                                               *)

None == {}
Some(x) == {x}
unwrap(o) == CHOOSE x \in o : TRUE
unwrap_or(o, dflt) == IF o = None THEN dflt ELSE unwrap(o)

----------------------------------------------------------------------------
(* TimeSeries<T, V>: the calendar.                                          *)

\* The first day of every calendar of the binaries, 2020-01-01.
global_start_date == 18262

\* TimeSeries::new: an empty store over [start, last).
TimeSeries_new(start, last) ==
    [start |-> start, len |-> last - start, keys |-> <<>>, time_series |-> <<>>]

\* date_index taking the day after the last slot for a day of the calendar.
date_index_off(ts, other) ==
    LET days == other - ts.start
    IN  IF days < 0 \/ days > ts.len THEN None ELSE Some(days)

date_index(ts, other) ==
    LET days == other - ts.start
    IN  IF days < 0 \/ days >= ts.len THEN None ELSE Some(days)

index_date(ts, i) ==
    IF i < 0 \/ i >= ts.len THEN None ELSE Some(ts.start + i)

----------------------------------------------------------------------------
(* TimeSeries<T, V>: the keyed store.  keys maps a key to the 0-based       *)
(* position of its vector in time_series.                                   *)

get_index(ts, k) == IF k \in DOMAIN ts.keys THEN Some(ts.keys[k]) ELSE None

\* get_or_create sizing the new vector one slot too long.
get_or_create_long(ts, k) ==
    IF k \in DOMAIN ts.keys
    THEN ts
    ELSE [ts EXCEPT !.keys = (k :> Len(ts.time_series)) @@ ts.keys,
                    !.time_series = Append(ts.time_series, [i \in 1..(ts.len + 1) |-> 0])]

\* The store after get_or_create(k); the slice it returns is the vector of k.
get_or_create(ts, k) ==
    IF k \in DOMAIN ts.keys
    THEN ts
    ELSE [ts EXCEPT !.keys = (k :> Len(ts.time_series)) @@ ts.keys,
                    !.time_series = Append(ts.time_series, [i \in 1..ts.len |-> 0])]

get(ts, k) ==
    IF get_index(ts, k) = None THEN None
    ELSE Some(ts.time_series[unwrap(get_index(ts, k)) + 1])

get_value(ts, k, i) ==
    IF i >= ts.len THEN None
    ELSE IF get(ts, k) = None THEN None
    ELSE Some(unwrap(get(ts, k))[i + 1])

keys(ts) == DOMAIN ts.keys

\* The store after `ts.get_or_create(k)[i] = v` (k present, i < len).
set_slot(ts, k, i, v) == [ts EXCEPT !.time_series[ts.keys[k] + 1][i + 1] = v]

Min(S) == CHOOSE x \in S : \A y \in S : x <= y

find_ge_strict(ts, k, start_at, value) ==
    IF get(ts, k) = None THEN None
    ELSE LET vec == unwrap(get(ts, k))
             hits == {i \in start_at..(Len(vec) - 1) : vec[i + 1] > value}
         IN  IF hits = {} THEN None ELSE Some(Min(hits))

find_ge(ts, k, start_at, value) ==
    IF get(ts, k) = None THEN None
    ELSE LET vec == unwrap(get(ts, k))
             hits == {i \in start_at..(Len(vec) - 1) : vec[i + 1] >= value}
         IN  IF hits = {} THEN None ELSE Some(Min(hits))

\* What a store holds, whatever the positions of the keys: key -> vector.
Content(ts) == [k \in keys(ts) |-> ts.time_series[ts.keys[k] + 1]]

\* The value of a slot, 0 for a key the store does not hold.
ValueAt(ts, k, i) == unwrap_or(get_value(ts, k, i), 0)

----------------------------------------------------------------------------
(* rki_diff: arithmetic helpers.  Counts stay far below 2^31 and 2^63 in    *)
(* every run of the model, so checked_add never overflows here.             *)

DELAY_CUTOFF == 28

saturating_sub(a, b) == IF a >= b THEN a - b ELSE 0
checked_sub(a, b) == IF a >= b THEN Some(a - b) ELSE None

saturating_add_u64_i32(reg, v) ==
    IF v < 0 THEN saturating_sub(reg, 0 - v) ELSE reg + v

checked_add_u64_i64(a, b) ==
    IF b < 0 THEN checked_sub(a, 0 - b) ELSE Some(a + b)

----------------------------------------------------------------------------
(* rki_diff: PartialDiffData.  An operation that can panic returns a record *)
(* with the flag panicked; the data of a panicked result is meaningless.    *)

PartialDiffData_new(start, end) ==
    [cases_by_pub     |-> TimeSeries_new(start, end),
     cases_delayed    |-> TimeSeries_new(start, end),
     case_delay_total |-> TimeSeries_new(start, end),
     late_cases       |-> TimeSeries_new(start, end),
     deaths_by_pub    |-> TimeSeries_new(start, end),
     recovered_by_pub |-> TimeSeries_new(start, end)]

Ok(d) == [panicked |-> FALSE, d |-> d]
Panicked(d) == [panicked |-> TRUE, d |-> d]

RecKey(rec) == <<rec.district_id, rec.age_group, rec.sex>>

\* `ts.get_or_create(k)[index] += v` and the saturating variant of submit.
add_at(ts, k, index, v) ==
    LET t == get_or_create(ts, k)
    IN  set_slot(t, k, index, t.time_series[t.keys[k] + 1][index + 1] + v)

saturating_add_at(ts, k, index, v) ==
    LET t == get_or_create(ts, k)
    IN  set_slot(t, k, index,
                 saturating_add_u64_i32(t.time_series[t.keys[k] + 1][index + 1], v))

\* initial_diff that primes nothing for a retraction.
initial_diff_without_retractions(flag, count) ==
    CASE flag = "Consistent" -> count
      [] OTHER -> 0

initial_diff(flag, count) ==
    CASE flag = "Consistent" -> count
      [] flag = "Retracted" -> 0 - count
      [] OTHER -> 0

submit_initial(d, rec) ==
    LET index == date_index(d.cases_by_pub, rec.report_date)
        k == RecKey(rec)
        case_diff == initial_diff(rec.case, rec.case_count)
        death_diff == initial_diff(rec.death, rec.death_count)
        recovered_diff == initial_diff(rec.recovered, rec.recovered_count)
    IN  IF index = None \/ case_diff < 0 \/ death_diff < 0 \/ recovered_diff < 0
        THEN Panicked(d)
        ELSE Ok([d EXCEPT
                 !.cases_by_pub = add_at(@, k, unwrap(index), case_diff),
                 !.deaths_by_pub = add_at(@, k, unwrap(index), death_diff),
                 !.recovered_by_pub = add_at(@, k, unwrap(index), recovered_diff)])

\* prepare_diff placing a retraction that finds no slot at its report date.
prepare_diff_unsearched(k, target_index, target_ts, report_date, flag, count) ==
    CASE flag = "NewlyReported" ->
            [panicked |-> FALSE, index |-> target_index, diff |-> count]
      [] flag = "Retracted" ->
            LET start_at == date_index(target_ts, report_date)
            IN  IF start_at = None \/ count > 0
                THEN [panicked |-> TRUE, index |-> 0, diff |-> 0]
                ELSE LET retract_index == find_ge(target_ts, k, unwrap(start_at), 0 - count)
                     IN  IF retract_index = None
                         THEN [panicked |-> FALSE, index |-> unwrap(start_at), diff |-> count]
                         ELSE [panicked |-> FALSE, index |-> unwrap(retract_index),
                               diff |-> count]
      [] OTHER -> [panicked |-> FALSE, index |-> 0, diff |-> 0]

\* prepare_diff counting a Consistent row like a NewlyReported one.
prepare_diff_consistent(k, target_index, target_ts, report_date, flag, count) ==
    CASE flag \in {"NewlyReported", "Consistent"} ->
            [panicked |-> FALSE, index |-> target_index, diff |-> count]
      [] flag = "Retracted" ->
            LET start_at == date_index(target_ts, report_date)
            IN  IF start_at = None \/ count > 0
                THEN [panicked |-> TRUE, index |-> 0, diff |-> 0]
                ELSE LET retract_index == find_ge(target_ts, k, unwrap(start_at), 0 - count)
                     IN  IF retract_index = None
                         THEN [panicked |-> FALSE, index |-> 0, diff |-> 0]
                         ELSE [panicked |-> FALSE, index |-> unwrap(retract_index),
                               diff |-> count]
      [] OTHER -> [panicked |-> FALSE, index |-> 0, diff |-> 0]

\* prepare_diff: where to place a diff, and the diff; (0, 0) places nothing.
prepare_diff(k, target_index, target_ts, report_date, flag, count) ==
    CASE flag = "NewlyReported" ->
            [panicked |-> FALSE, index |-> target_index, diff |-> count]
      [] flag = "Retracted" ->
            LET start_at == date_index(target_ts, report_date)
            IN  IF start_at = None \/ count > 0
                THEN [panicked |-> TRUE, index |-> 0, diff |-> 0]
                ELSE LET retract_index == find_ge(target_ts, k, unwrap(start_at), 0 - count)
                     IN  IF retract_index = None
                         THEN [panicked |-> FALSE, index |-> 0, diff |-> 0]
                         ELSE [panicked |-> FALSE, index |-> unwrap(retract_index),
                               diff |-> count]
      [] OTHER -> [panicked |-> FALSE, index |-> 0, diff |-> 0]

\* apply_diff: the target store after the diff of one flag/count pair.
apply_diff(k, target_index, target_ts, report_date, flag, count) ==
    LET p == prepare_diff(k, target_index, target_ts, report_date, flag, count)
        ts == get_or_create(target_ts, k)
        v == checked_add_u64_i64(ts.time_series[ts.keys[k] + 1][p.index + 1], p.diff)
    IN  IF p.panicked THEN [panicked |-> TRUE, ts |-> target_ts]
        ELSE IF p.diff = 0 THEN [panicked |-> FALSE, ts |-> target_ts]
        ELSE IF v = None THEN [panicked |-> TRUE, ts |-> target_ts]
        ELSE [panicked |-> FALSE, ts |-> set_slot(ts, k, p.index, unwrap(v))]

\* The match on rec.case in submit: (case_delay, case_delay_count,
\* late_case_count) of a record merged for the day date_.
delay_counts_inclusive(date_, rec) ==
    LET delay == date_ - rec.report_date
    IN  IF rec.case # "NewlyReported" THEN <<0, 0, 0>>
        ELSE IF delay >= DELAY_CUTOFF THEN <<0, 0, rec.case_count>>
        ELSE <<delay, rec.case_count, 0>>

delay_counts(date_, rec) ==
    LET delay == date_ - rec.report_date
    IN  IF rec.case # "NewlyReported" THEN <<0, 0, 0>>
        ELSE IF delay > DELAY_CUTOFF THEN <<0, 0, rec.case_count>>
        ELSE <<delay, rec.case_count, 0>>

submit(d, date_, rec) ==
    LET index == date_index(d.cases_by_pub, date_)
        k == RecKey(rec)
        i == unwrap(index)
        c == apply_diff(k, i, d.cases_by_pub, rec.report_date, rec.case, rec.case_count)
        de == apply_diff(k, i, d.deaths_by_pub, rec.report_date, rec.death, rec.death_count)
        r == apply_diff(k, i, d.recovered_by_pub, rec.report_date, rec.recovered,
                        rec.recovered_count)
        dc == delay_counts(date_, rec)
    IN  IF index = None THEN Panicked(d)
        ELSE IF c.panicked \/ de.panicked \/ r.panicked THEN Panicked(d)
        ELSE IF rec.case = "NewlyReported" /\ date_ - rec.report_date < 0 THEN Panicked(d)
        ELSE Ok([cases_by_pub     |-> c.ts,
                 deaths_by_pub    |-> de.ts,
                 recovered_by_pub |-> r.ts,
                 cases_delayed    |-> saturating_add_at(d.cases_delayed, k, i, dc[2]),
                 case_delay_total |-> saturating_add_at(d.case_delay_total, k, i,
                                                        dc[1] * dc[2]),
                 late_cases       |-> saturating_add_at(d.late_cases, k, i, dc[3])])

\* write_all: the rows written, as a set (the order of the keys within a date
\* is the iteration order of a HashMap).
write_all(d) ==
    LET row(i, k) ==
            [date          |-> unwrap(index_date(d.cases_by_pub, i)),
             district_id   |-> k[1],
             age_group     |-> k[2],
             sex           |-> k[3],
             cases         |-> unwrap_or(get_value(d.cases_by_pub, k, i), 0),
             delay_total   |-> unwrap_or(get_value(d.case_delay_total, k, i), 0),
             cases_delayed |-> unwrap_or(get_value(d.cases_delayed, k, i), 0),
             late_cases    |-> unwrap_or(get_value(d.late_cases, k, i), 0),
             deaths        |-> unwrap_or(get_value(d.deaths_by_pub, k, i), 0),
             recovered     |-> unwrap_or(get_value(d.recovered_by_pub, k, i), 0)]
    IN  {row(i, k) : <<i, k>> \in
            {ik \in (0..(d.cases_by_pub.len - 1)) \X keys(d.cases_by_pub) :
                ~(row(ik[1], ik[2]).cases = 0 /\ row(ik[1], ik[2]).deaths = 0
                  /\ row(ik[1], ik[2]).recovered = 0)}}

\* load_row storing the delayed cases of a row as its late cases too.
load_row_late_slip(d, rec) ==
    LET index == date_index(d.cases_by_pub, rec.date)
        k == RecKey(rec)
        i == unwrap(index)
    IN  IF index = None THEN Panicked(d)
        ELSE Ok([cases_by_pub     |-> set_slot(get_or_create(d.cases_by_pub, k), k, i, rec.cases),
                 deaths_by_pub    |-> set_slot(get_or_create(d.deaths_by_pub, k), k, i, rec.deaths),
                 recovered_by_pub |-> set_slot(get_or_create(d.recovered_by_pub, k), k, i,
                                               rec.recovered),
                 case_delay_total |-> set_slot(get_or_create(d.case_delay_total, k), k, i,
                                               rec.delay_total),
                 late_cases       |-> set_slot(get_or_create(d.late_cases, k), k, i,
                                               rec.cases_delayed),
                 cases_delayed    |-> set_slot(get_or_create(d.cases_delayed, k), k, i,
                                               rec.cases_delayed)])

\* The body of load_existing's loop for one row.
load_row(d, rec) ==
    LET index == date_index(d.cases_by_pub, rec.date)
        k == RecKey(rec)
        i == unwrap(index)
    IN  IF index = None THEN Panicked(d)
        ELSE Ok([cases_by_pub     |-> set_slot(get_or_create(d.cases_by_pub, k), k, i, rec.cases),
                 deaths_by_pub    |-> set_slot(get_or_create(d.deaths_by_pub, k), k, i, rec.deaths),
                 recovered_by_pub |-> set_slot(get_or_create(d.recovered_by_pub, k), k, i,
                                               rec.recovered),
                 case_delay_total |-> set_slot(get_or_create(d.case_delay_total, k), k, i,
                                               rec.delay_total),
                 late_cases       |-> set_slot(get_or_create(d.late_cases, k), k, i,
                                               rec.late_cases),
                 cases_delayed    |-> set_slot(get_or_create(d.cases_delayed, k), k, i,
                                               rec.cases_delayed)])

\* load_existing over the rows of a file whose rows have distinct (date, key),
\* so their order does not matter.
RECURSIVE load_existing(_, _)
load_existing(d, rows) ==
    IF rows = {} THEN Ok(d)
    ELSE LET rec == CHOOSE r \in rows : TRUE
             one == load_row(d, rec)
         IN  IF one.panicked THEN one ELSE load_existing(one.d, rows \ {rec})

\* prime: submit_initial for every record of the snapshot, in file order.
RECURSIVE prime(_, _)
prime(d, recs) ==
    IF recs = <<>> THEN Ok(d)
    ELSE LET one == submit_initial(d, Head(recs))
         IN  IF one.panicked THEN one ELSE prime(one.d, Tail(recs))

\* merge_new: submit for every record of the snapshot, in file order.
RECURSIVE merge_new(_, _, _)
merge_new(d, date_, recs) ==
    IF recs = <<>> THEN Ok(d)
    ELSE LET one == submit(d, date_, Head(recs))
         IN  IF one.panicked THEN one ELSE merge_new(one.d, date_, Tail(recs))

----------------------------------------------------------------------------
(* rki_diff: the inputs of a run.                                           *)

start == global_start_date
\* naive_today(): the calendar of a run is [start, end_).
end_ == start + NumDays

Keys == {<<1001, "A00-A04", "M">>, <<1002, "unbekannt", "W">>}

Flags == {"NewlyReported", "Retracted", "NotApplicable", "Consistent"}

\* (flag, count) of the case columns of a snapshot row: the counts of newly
\* reported and consistent rows are positive, those of retracted rows negative.
CaseChannels ==
    {<<"NewlyReported", c>> : c \in 1..MaxCount}
    \cup {<<"Retracted", 0 - c>> : c \in 1..MaxCount}
    \cup {<<"Consistent", 1>>, <<"NotApplicable", 0>>}

\* (death flag, death count, recovered flag, recovered count) of a snapshot row.
OtherChannels ==
    {<<"NotApplicable", 0, "NotApplicable", 0>>,
     <<"NewlyReported", 1, "Consistent", 1>>,
     <<"Retracted", -1, "NewlyReported", 1>>,
     <<"Consistent", 1, "Retracted", -1>>}

\* Report dates: the days of the calendar and one day before it, which is
\* DELAY_CUTOFF days before the first slot and DELAY_CUTOFF + 1 before the second.
ReportDates == {start - DELAY_CUTOFF} \cup start..(end_ - 1)

\* Publication date minus one day: the days of the calendar and the day after it.
PubDates == start..end_

InfectionRecord(k, report_date, cc, oc) ==
    [district_id |-> k[1], age_group |-> k[2], sex |-> k[3],
     report_date |-> report_date,
     case |-> cc[1], case_count |-> cc[2],
     death |-> oc[1], death_count |-> oc[2],
     recovered |-> oc[3], recovered_count |-> oc[4]]

Records ==
    {InfectionRecord(k, rd, cc, oc) :
        k \in Keys, rd \in ReportDates, cc \in CaseChannels, oc \in OtherChannels}

\* The records of the two-record snapshots: cases only, dates of the calendar.
CoreRecords ==
    {InfectionRecord(k, rd, cc, <<"NotApplicable", 0, "NotApplicable", 0>>) :
        k \in {<<1001, "A00-A04", "M">>}, rd \in start..(end_ - 1),
        cc \in {<<"NewlyReported", 1>>, <<"Retracted", -1>>, <<"Consistent", 1>>}}

\* The snapshot files: empty, one record, or two core records.
Snapshots ==
    {<<>>} \cup {<<r>> : r \in Records} \cup {<<a, b>> : a \in CoreRecords, b \in CoreRecords}

\* Number of (snapshot, date) pairs on the command line.
ArgvPairs == {0, 1}

\* (cases, delay_total, cases_delayed, late_cases, deaths, recovered) of a row
\* of an artifact; one of cases, deaths, recovered is not zero, as write_all
\* writes no other row.
RowKinds ==
    {<<MaxCount, MaxCount + 3, MaxCount, 0, 0, 0>>,
     <<1, 0, 0, 1, 1, 0>>,
     <<0, 0, 0, 0, 0, 1>>}

DiffRecord(d, k, f) ==
    [date |-> d, district_id |-> k[1], age_group |-> k[2], sex |-> k[3],
     cases |-> f[1], delay_total |-> f[2], cases_delayed |-> f[3],
     late_cases |-> f[4], deaths |-> f[5], recovered |-> f[6]]

RowMenu == {DiffRecord(d, k, f) : d \in start..(end_ - 1), k \in Keys, f \in RowKinds}

\* The rows of an artifact: at most MaxRows rows with distinct (date, key).
RowSets ==
    {rows \in SUBSET RowMenu :
        /\ Cardinality(rows) <= MaxRows
        /\ \A a, b \in rows : (a.date = b.date /\ RecKey(a) = RecKey(b)) => a = b}

\* The file argv[1]: missing, or a file of rows that is gzip-compressed or not.
NoFile == [exists |-> FALSE, gzip |-> FALSE, rows |-> {}]
Datafiles ==
    {NoFile} \cup {[exists |-> TRUE, gzip |-> g, rows |-> rows] : g \in BOOLEAN, rows \in RowSets}

----------------------------------------------------------------------------
(* rki_diff: files.                                                         *)

\* try_load_existing: a missing file is no error; the file is read through a
\* GzDecoder, which fails on a file that is not gzip-compressed (CSV text, at
\* least its header line).
try_load_existing(file, d) ==
    IF ~file.exists THEN [failed |-> FALSE, found |-> FALSE, d |-> d]
    ELSE IF ~file.gzip THEN [failed |-> TRUE, found |-> FALSE, d |-> d]
    ELSE LET r == load_existing(d, file.rows)
         IN  [failed |-> r.panicked, found |-> Cardinality(file.rows) > 0, d |-> r.d]

\* writeback writing the rows as they are, without an encoder.
writeback_plain(d) == [exists |-> TRUE, gzip |-> FALSE, rows |-> write_all(d)]

\* writeback: the file created, written through a GzEncoder.
writeback(d) == [exists |-> TRUE, gzip |-> TRUE, rows |-> write_all(d)]

----------------------------------------------------------------------------
(* SpecDiff: one run of rki_diff's main().                                  *)
(* pc: "start" before try_load_existing, "pairs" at the head of the loop    *)
(* over argv[2..], "merging" inside merge_new, "done" after writeback,      *)
(* "failed" when the run ended with an error or a panic.                    *)

DiffInit ==
    /\ pc = "start"
    /\ datafile \in Datafiles
    /\ original = datafile
    /\ counters = PartialDiffData_new(start, end_)
    /\ found_anything = FALSE
    /\ argc \in ArgvPairs
    /\ pair = 0
    /\ snapshot = <<>>
    /\ date = start
    /\ pos = 0
    /\ pass_start = counters
    /\ before = counters

DiffIdle ==
    /\ pc = "idle"
    /\ datafile = NoFile
    /\ original = NoFile
    /\ counters = PartialDiffData_new(start, end_)
    /\ found_anything = FALSE
    /\ argc = 0
    /\ pair = 0
    /\ snapshot = <<>>
    /\ date = start
    /\ pos = 0
    /\ pass_start = counters
    /\ before = counters

TryLoadExisting ==
    /\ pc = "start"
    /\ LET r == try_load_existing(datafile, counters)
       IN  /\ pc' = IF r.failed THEN "failed" ELSE "pairs"
           /\ counters' = IF r.failed THEN counters ELSE r.d
           /\ found_anything' = r.found
    /\ UNCHANGED <<datafile, original, argc, pair, snapshot, date, pos, pass_start, before>>

\* The first pair of a run that found no rows: prime, then enter merge_new.
Prime ==
    /\ pc = "pairs" /\ pair < argc /\ ~found_anything
    /\ \E newfile \in Snapshots, d \in PubDates :
        LET r == prime(counters, newfile)
            after == IF r.panicked THEN counters ELSE r.d
        IN  /\ snapshot' = newfile
            /\ date' = d
            /\ pc' = IF r.panicked THEN "failed"
                     ELSE IF newfile = <<>> THEN "pairs" ELSE "merging"
            /\ counters' = after
            /\ pass_start' = after
            /\ before' = after
            /\ pair' = IF ~r.panicked /\ newfile = <<>> THEN pair + 1 ELSE pair
    /\ found_anything' = TRUE
    /\ pos' = 0
    /\ UNCHANGED <<datafile, original, argc>>

\* A pair of a run that has rows: enter merge_new.
OpenSnapshot ==
    /\ pc = "pairs" /\ pair < argc /\ found_anything
    /\ \E newfile \in Snapshots, d \in PubDates :
        /\ snapshot' = newfile
        /\ date' = d
        /\ pc' = IF newfile = <<>> THEN "pairs" ELSE "merging"
        /\ pair' = IF newfile = <<>> THEN pair + 1 ELSE pair
    /\ pos' = 0
    /\ pass_start' = counters
    /\ before' = counters
    /\ UNCHANGED <<datafile, original, counters, found_anything, argc>>

\* One iteration of merge_new's loop: submit the next record of the snapshot.
MergeRecord ==
    /\ pc = "merging" /\ pos < Len(snapshot)
    /\ LET r == submit(counters, date, snapshot[pos + 1])
       IN  /\ pc' = IF r.panicked THEN "failed"
                    ELSE IF pos + 1 = Len(snapshot) THEN "pairs" ELSE "merging"
           /\ counters' = IF r.panicked THEN counters ELSE r.d
           /\ pair' = IF ~r.panicked /\ pos + 1 = Len(snapshot) THEN pair + 1 ELSE pair
    /\ pos' = pos + 1
    /\ before' = counters
    /\ UNCHANGED <<datafile, original, found_anything, argc, snapshot, date, pass_start>>

Writeback ==
    /\ pc = "pairs" /\ pair = argc
    /\ datafile' = writeback(counters)
    /\ pc' = "done"
    /\ UNCHANGED <<original, counters, found_anything, argc, pair, snapshot, date, pos,
                   pass_start, before>>

----------------------------------------------------------------------------
(* SpecCalendar: date_index and index_date applied to bounded calendars.    *)

CalStarts == {global_start_date, global_start_date + 59}

CalInit ==
    \E s \in CalStarts, l \in 0..MaxCalLen :
        cal = [ts |-> TimeSeries_new(s, s + l), op |-> "new", arg |-> 0,
               res |-> None, back |-> None]

\* date_index(d), and index_date of the slot it returns.
CalDateIndex ==
    \E d \in (cal.ts.start - MaxCalLen)..(cal.ts.start + cal.ts.len + MaxCalLen) :
        LET r == date_index(cal.ts, d)
        IN  cal' = [cal EXCEPT !.op = "date_index", !.arg = d, !.res = r,
                       !.back = IF r = None THEN None ELSE index_date(cal.ts, unwrap(r))]

\* index_date(i), and date_index of the day it returns.
CalIndexDate ==
    \E i \in (0 - MaxCalLen)..(cal.ts.len + MaxCalLen) :
        LET r == index_date(cal.ts, i)
        IN  cal' = [cal EXCEPT !.op = "index_date", !.arg = i, !.res = r,
                       !.back = IF r = None THEN None ELSE date_index(cal.ts, unwrap(r))]

----------------------------------------------------------------------------
(* TimeSeries<T, u64>: the operations on whole stores.  A call that panics  *)
(* returns panicked = TRUE; the store it leaves is of no interest, the run  *)
(* has ended.  Values stay far below 2^63 in every run of the model.        *)

\* The accumulator of cumsum after the first i elements of vec.
RECURSIVE accum(_, _)
accum(vec, i) == IF i = 0 THEN 0 ELSE accum(vec, i - 1) + vec[i]

\* cumsum_vec storing the accumulator before adding the slot.
cumsum_vec_exclusive(vec) == [i \in 1..Len(vec) |-> accum(vec, i - 1)]

cumsum_vec(vec) == [i \in 1..Len(vec) |-> accum(vec, i)]

cumsum(ts) == [ts EXCEPT !.time_series = [n \in 1..Len(@) |-> cumsum_vec(@[n])]]

\* slice::rotate_right(k), for k <= len (it asserts k <= len).
rotate_right(vec, k) ==
    [i \in 1..Len(vec) |-> vec[((i - 1 - k) % Len(vec)) + 1]]

\* vec[..n].fill(0), for n <= len (the slice panics for n > len).
fill_front(vec, n) == [i \in 1..Len(vec) |-> IF i <= n THEN 0 ELSE vec[i]]

\* non_cumulative taking an unchanged value for a fall.
non_cumulative_strict(vec, offset) ==
    {i \in offset..(Len(vec) - 1) : vec[i + 1] <= vec[i - offset + 1]}

\* The slots at which diff's checked_sub fails on vec.
non_cumulative(vec, offset) ==
    {i \in offset..(Len(vec) - 1) : vec[i + 1] < vec[i - offset + 1]}

\* diff_vec leaving the front of the rotated vector as it is.
diff_vec_unfilled(vec, offset) ==
    LET looped == [j \in 1..Len(vec) |->
                      IF j + offset <= Len(vec) THEN vec[j + offset] - vec[j] ELSE vec[j]]
    IN  rotate_right(looped, offset)

\* diff on one vector with no failing slot and offset <= len: the loop, the
\* rotation, the fill.
diff_vec(vec, offset) ==
    LET looped == [j \in 1..Len(vec) |->
                      IF j + offset <= Len(vec) THEN vec[j + offset] - vec[j] ELSE vec[j]]
    IN  fill_front(rotate_right(looped, offset), offset)

\* The first vector (in time_series order) on which diff panics, if any: at
\* a slot where checked_sub fails, or in rotate_right when offset > len.
diff_failing(ts, offset) ==
    {n \in 1..Len(ts.time_series) :
        /\ non_cumulative(ts.time_series[n], offset) # {} \/ offset > ts.len
        /\ \A m \in 1..(n - 1) :
               non_cumulative(ts.time_series[m], offset) = {} /\ offset <= ts.len}

\* diff: error is "none", "non-cumulative" (the panic naming prev, curr, index
\* and key) or "rotate" (the assertion of rotate_right).
diff(ts, offset) ==
    IF diff_failing(ts, offset) = {}
    THEN [panicked |-> FALSE, error |-> "none", vec_index |-> 0, index |-> 0, prev |-> 0,
          curr |-> 0,
          ts |-> [ts EXCEPT !.time_series = [n \in 1..Len(@) |-> diff_vec(@[n], offset)]]]
    ELSE LET n == CHOOSE n \in diff_failing(ts, offset) : TRUE
             vec == ts.time_series[n]
             bad == non_cumulative(vec, offset)
         IN  IF bad = {}
             THEN [panicked |-> TRUE, error |-> "rotate", vec_index |-> n - 1, index |-> 0,
                   prev |-> 0, curr |-> 0, ts |-> ts]
             ELSE LET i == Min(bad)
                  IN  [panicked |-> TRUE, error |-> "non-cumulative", vec_index |-> n - 1,
                       index |-> i, prev |-> vec[i - offset + 1], curr |-> vec[i + 1],
                       ts |-> ts]

\* shift_fwd rotating without clearing the front.
shift_fwd_wrapping(ts, offset) ==
    IF Len(ts.time_series) > 0 /\ offset > ts.len
    THEN [panicked |-> TRUE, ts |-> ts]
    ELSE [panicked |-> FALSE,
          ts |-> [ts EXCEPT !.time_series =
                     [n \in 1..Len(@) |-> rotate_right(@[n], offset)]]]

\* shift_fwd: the zero fill for offset >= len does not return; the rotation
\* that follows asserts offset <= len on every vector.
shift_fwd(ts, offset) ==
    LET zeroed == IF offset >= ts.len
                  THEN [ts EXCEPT !.time_series =
                           [n \in 1..Len(@) |-> [i \in 1..ts.len |-> 0]]]
                  ELSE ts
    IN  IF Len(ts.time_series) > 0 /\ offset > ts.len
        THEN [panicked |-> TRUE, ts |-> zeroed]
        ELSE [panicked |-> FALSE,
              ts |-> [zeroed EXCEPT !.time_series =
                         [n \in 1..Len(@) |-> fill_front(rotate_right(@[n], offset), offset)]]]

\* unrolled on one vector from slot i on: dst holds the slots written so far.
RECURSIVE unrolled_from(_, _, _, _, _)
unrolled_from(src, dst, i, neg_carry, window_size) ==
    IF i >= Len(dst) THEN dst
    ELSE LET v_l == IF i < window_size THEN 0 ELSE dst[i - window_size + 1]
             v_p == IF i > 0 THEN src[i] ELSE 0
             v_c == src[i + 1]
             new == (v_c - v_p) + v_l
             carry == IF new < 0 THEN neg_carry + (0 - new)
                      ELSE IF neg_carry >= new THEN neg_carry - new ELSE 0
             out == IF new < 0 THEN 0
                    ELSE IF neg_carry >= new THEN 0 ELSE new - neg_carry
         IN  unrolled_from(src, [dst EXCEPT ![i + 1] = out], i + 1, carry, window_size)

\* neg_carry_after that reports no carry.
neg_carry_never(src, window_size, i) == 0

\* unrolled: neg_carry of a vector after the pass of the loop for slot i.
RECURSIVE neg_carry_after(_, _, _)
neg_carry_after(src, window_size, i) ==
    IF i < 0 THEN 0
    ELSE LET dst == unrolled_from(src, src, 0, 0, window_size)
             neg_carry == neg_carry_after(src, window_size, i - 1)
             v_l == IF i < window_size THEN 0 ELSE dst[i - window_size + 1]
             v_p == IF i > 0 THEN src[i] ELSE 0
             v_c == src[i + 1]
             new == (v_c - v_p) + v_l
         IN  IF new < 0 THEN neg_carry + (0 - new)
             ELSE IF neg_carry >= new THEN neg_carry - new ELSE 0

\* unrolled looking one slot too near for the value leaving the window.
unrolled_short_window(ts, window_size) ==
    [ts EXCEPT !.time_series =
        [n \in 1..Len(@) |-> unrolled_from(@[n], @[n], 0, 0,
                                           IF window_size > 1 THEN window_size - 1
                                           ELSE window_size)]]

unrolled(ts, window_size) ==
    [ts EXCEPT !.time_series =
        [n \in 1..Len(@) |-> unrolled_from(@[n], @[n], 0, 0, window_size)]]

\* rfill_zeroes: the last non-zero value of a vector fills the slots after it.
rfill_zeroes_vec(vec) ==
    LET nonzero == {i \in 0..(Len(vec) - 1) : vec[i + 1] # 0}
        last_nonzero == CHOOSE i \in nonzero : \A j \in nonzero : j <= i
    IN  IF nonzero = {} THEN vec
        ELSE [j \in 1..Len(vec) |-> IF j - 1 > last_nonzero THEN vec[last_nonzero + 1]
                                     ELSE vec[j]]

rfill_zeroes(ts) ==
    [ts EXCEPT !.time_series = [n \in 1..Len(@) |-> rfill_zeroes_vec(@[n])]]

\* add: every key of self that other holds gets other's vector added.
add(ts, other) ==
    [ts EXCEPT !.time_series =
        [n \in 1..Len(@) |->
            LET k == CHOOSE k \in DOMAIN ts.keys : ts.keys[k] = n - 1
            IN  IF get(other, k) = None THEN @[n]
                ELSE [i \in 1..Len(@[n]) |-> @[n][i] + unwrap(get(other, k))[i]]]]

\* timeseries.rs saturating_add_u64_i64 (checked_add cannot overflow here).
saturating_add_u64_i64(reg, v) == IF v < 0 THEN saturating_sub(reg, 0 - v) ELSE reg + v

\* The keys of a store in the order of their vectors.
RECURSIVE keys_in_order(_, _)
keys_in_order(ts, n) ==
    IF n > Len(ts.time_series) THEN <<>>
    ELSE <<CHOOSE k \in DOMAIN ts.keys : ts.keys[k] = n - 1>> \o keys_in_order(ts, n + 1)

\* checked_add_signed: every key of other is created in self if need be and
\* gets other's vector added, saturating at zero.
RECURSIVE checked_add_signed_from(_, _, _)
checked_add_signed_from(ts, other, ks) ==
    IF ks = <<>> THEN ts
    ELSE LET k == Head(ks)
             local == get_or_create(ts, k)
             remote == unwrap(get(other, k))
             n == local.keys[k] + 1
         IN  checked_add_signed_from(
                 [local EXCEPT !.time_series[n] =
                     [i \in 1..Len(@) |-> saturating_add_u64_i64(@[i], remote[i])]],
                 other, Tail(ks))

checked_add_signed(ts, other) == checked_add_signed_from(ts, other, keys_in_order(other, 1))

\* rekeyed: the keys of self are visited (here in the order of their vectors;
\* the HashMap fixes no order, and only the position of a new key's vector
\* depends on it).  f gives a set: empty for None.
RECURSIVE rekeyed_from(_, _, _, _)
rekeyed_from(ts, result, f, ks) ==
    IF ks = <<>> THEN result
    ELSE LET k_old == Head(ks)
         IN  IF f[k_old] = None THEN rekeyed_from(ts, result, f, Tail(ks))
             ELSE LET k_new == unwrap(f[k_old])
                      created == get_or_create(result, k_new)
                      ts_old == unwrap(get(ts, k_old))
                      n == created.keys[k_new] + 1
                  IN  rekeyed_from(ts,
                          [created EXCEPT !.time_series[n] =
                              [i \in 1..Len(@) |-> @[i] + ts_old[i]]],
                          f, Tail(ks))

\* rekeyed keeping, for a new key, the vector of the last old key mapped to it.
rekeyed_overwriting(ts, f) ==
    LET result == rekeyed_from(ts, [start |-> ts.start, len |-> ts.len, keys |-> <<>>,
                                    time_series |-> <<>>],
                               f, keys_in_order(ts, 1))
    IN  [result EXCEPT !.time_series =
            [n \in 1..Len(@) |->
                LET k_new == CHOOSE k \in DOMAIN result.keys : result.keys[k] = n - 1
                    olds == {m \in 1..Len(ts.time_series) :
                                f[keys_in_order(ts, 1)[m]] = Some(k_new)}
                    last == CHOOSE m \in olds : \A o \in olds : o <= m
                IN  ts.time_series[last]]]

rekeyed(ts, f) ==
    rekeyed_from(ts, [start |-> ts.start, len |-> ts.len, keys |-> <<>>, time_series |-> <<>>],
                 f, keys_in_order(ts, 1))

\* get_index_or_insert: an existing key keeps its vector and vec is dropped.
get_index_or_insert(ts, k, vec) ==
    IF Len(vec) # ts.len THEN [panicked |-> TRUE, ts |-> ts]
    ELSE IF k \in DOMAIN ts.keys THEN [panicked |-> FALSE, ts |-> ts]
    ELSE [panicked |-> FALSE,
          ts |-> [ts EXCEPT !.keys = (k :> Len(ts.time_series)) @@ ts.keys,
                            !.time_series = Append(ts.time_series, vec)]]

\* vtemp of synthesize after the keys kin (a sequence) from position p on.
RECURSIVE vtemp_from(_, _, _)
vtemp_from(ts, kin, p) ==
    IF p > Len(kin) THEN [i \in 1..ts.len |-> 0]
    ELSE LET rest == vtemp_from(ts, kin, p + 1)
             tsin == get(ts, kin[p])
         IN  IF tsin = None THEN rest
             ELSE [i \in 1..ts.len |-> rest[i] + unwrap(tsin)[i]]

synthesize(ts, kin, kout) == get_index_or_insert(ts, kout, vtemp_from(ts, kin, 1))

----------------------------------------------------------------------------
(* to_influx: the three ingest streams, one record at a time.               *)

\* ReportFlag::valid
valid(flag) == flag \in {"NewlyReported", "Consistent"}

\* District -> state, as the master data gives it to RawCaseData::submit.
district_map == (1001 :> 1) @@ (1002 :> 2)

RawCaseData_new(s, e) ==
    [cases_by_ref    |-> TimeSeries_new(s, e),
     cases_by_report |-> TimeSeries_new(s, e),
     deaths          |-> TimeSeries_new(s, e),
     recovered       |-> TimeSeries_new(s, e)]

RawCaseData_submit(d, rec) ==
    LET case_count == IF valid(rec.case) THEN rec.case_count ELSE 0
        death_count == IF valid(rec.death) THEN rec.death_count ELSE 0
        recovered_count == IF valid(rec.recovered) THEN rec.recovered_count ELSE 0
    IN  IF case_count < 0 \/ death_count < 0 \/ recovered_count < 0 THEN Panicked(d)
        ELSE IF rec.district_id \notin DOMAIN district_map THEN Panicked(d)
        ELSE LET k == <<district_map[rec.district_id], rec.district_id, rec.age_group,
                        rec.sex>>
                 ref == date_index(d.cases_by_ref, rec.reference_date)
                 rep == date_index(d.cases_by_report, rec.report_date)
             IN  IF ref = None THEN Panicked(d)
                 ELSE IF case_count > 0 /\ rep = None THEN Panicked(d)
                 ELSE Ok([cases_by_ref |->
                              IF case_count > 0
                              THEN add_at(d.cases_by_ref, k, unwrap(ref), case_count)
                              ELSE d.cases_by_ref,
                          cases_by_report |->
                              IF case_count > 0
                              THEN add_at(d.cases_by_report, k, unwrap(rep), case_count)
                              ELSE d.cases_by_report,
                          deaths |->
                              IF death_count > 0
                              THEN add_at(d.deaths, k, unwrap(ref), death_count)
                              ELSE d.deaths,
                          recovered |->
                              IF recovered_count > 0
                              THEN add_at(d.recovered, k, unwrap(ref), recovered_count)
                              ELSE d.recovered])

RawHospitalizationData_new(s, e) == [cases_d7 |-> TimeSeries_new(s, e)]

RawHospitalizationData_submit(d, rec) ==
    IF rec.state_id = 0 THEN d
    ELSE LET index == date_index(d.cases_d7, rec.date)
         IN  IF index = None THEN d
             ELSE [cases_d7 |-> add_at(d.cases_d7, <<rec.state_id, rec.age_group>>,
                                       unwrap(index), rec.cases_d7)]

RawICULoadData_new(s, e) ==
    [curr_covid_cases          |-> TimeSeries_new(s, e),
     curr_covid_cases_invasive |-> TimeSeries_new(s, e),
     curr_beds_free            |-> TimeSeries_new(s, e),
     curr_beds_in_use          |-> TimeSeries_new(s, e)]

\* The body of load_divi_load_data's loop for one row.
load_divi_load_row(data, rec) ==
    LET index == date_index(data.curr_covid_cases, rec.date)
        k == <<rec.state_id, rec.district_id>>
        i == unwrap(index)
    IN  IF index = None THEN data
        ELSE [curr_covid_cases |->
                  set_slot(get_or_create(data.curr_covid_cases, k), k, i,
                           rec.current_covid_cases),
              curr_covid_cases_invasive |->
                  set_slot(get_or_create(data.curr_covid_cases_invasive, k), k, i,
                           rec.current_covid_cases_invasive_ventilation),
              curr_beds_free |->
                  set_slot(get_or_create(data.curr_beds_free, k), k, i, rec.beds_free),
              curr_beds_in_use |->
                  set_slot(get_or_create(data.curr_beds_in_use, k), k, i, rec.beds_in_use)]

----------------------------------------------------------------------------
(* SpecIngest: records of the three streams, with dates in and around the   *)
(* calendar, submitted to fresh stores.                                     *)

\* The days of the calendar, the day before it and the day after it.
IngestDates == (start - 1)..end_

HospitalizationRecords ==
    {[date |-> d, state_id |-> st, age_group |-> "A00-A04", cases_d7 |-> 1] :
        d \in IngestDates, st \in {0, 1}}

ICULoadRecords ==
    {[date |-> d, state_id |-> 1, district_id |-> 1001, current_covid_cases |-> 2,
      current_covid_cases_invasive_ventilation |-> 1, beds_free |-> 0, beds_in_use |-> 1] :
        d \in IngestDates}

IngestChannels ==
    {<<"NewlyReported", 1>>, <<"Consistent", 1>>, <<"Retracted", -1>>}

\* Infection records as to_influx reads them: with a reference date.
ReferencedRecords ==
    {[reference_date |-> ref]
        @@ InfectionRecord(<<1001, "A00-A04", "M">>, rep, cc,
                           <<"NewlyReported", 1, "NotApplicable", 0>>) :
        ref \in IngestDates, rep \in IngestDates, cc \in IngestChannels}

\* Infection records as rki_diff reads them, with the day P' they are merged at.
DatedRecords ==
    {InfectionRecord(<<1001, "A00-A04", "M">>, rep, cc,
                     <<"NotApplicable", 0, "NotApplicable", 0>>) :
        rep \in IngestDates, cc \in IngestChannels}

IngestStores(i) == [hosp |-> i.hosp, icu |-> i.icu, raw |-> i.raw, diff |-> i.diff]

IngestInit ==
    ingest = [op |-> "new", n |-> 0, aborted |-> FALSE,
              hosp |-> RawHospitalizationData_new(start, end_),
              icu |-> RawICULoadData_new(start, end_),
              raw |-> RawCaseData_new(start, end_),
              diff |-> PartialDiffData_new(start, end_),
              rec |-> <<>>, pub |-> start,
              prev |-> [hosp |-> RawHospitalizationData_new(start, end_),
                        icu |-> RawICULoadData_new(start, end_),
                        raw |-> RawCaseData_new(start, end_),
                        diff |-> PartialDiffData_new(start, end_)]]

IngestReady == ingest.op # "idle" /\ ~ingest.aborted /\ ingest.n < MaxIngest

SubmitHospitalization ==
    /\ IngestReady
    /\ \E rec \in HospitalizationRecords :
           ingest' = [ingest EXCEPT !.op = "hosp", !.n = @ + 1, !.rec = rec,
                          !.prev = IngestStores(ingest),
                          !.hosp = RawHospitalizationData_submit(ingest.hosp, rec)]

LoadICURow ==
    /\ IngestReady
    /\ \E rec \in ICULoadRecords :
           ingest' = [ingest EXCEPT !.op = "icu", !.n = @ + 1, !.rec = rec,
                          !.prev = IngestStores(ingest),
                          !.icu = load_divi_load_row(ingest.icu, rec)]

SubmitCase ==
    /\ IngestReady
    /\ \E rec \in ReferencedRecords :
           LET r == RawCaseData_submit(ingest.raw, rec)
           IN  ingest' = [ingest EXCEPT !.op = "case", !.n = @ + 1, !.rec = rec,
                              !.prev = IngestStores(ingest),
                              !.raw = r.d, !.aborted = r.panicked]

SubmitDiff ==
    /\ IngestReady
    /\ \E rec \in DatedRecords, d \in IngestDates :
           LET r == submit(ingest.diff, d, rec)
           IN  ingest' = [ingest EXCEPT !.op = "diff", !.n = @ + 1, !.rec = rec,
                              !.pub = d, !.prev = IngestStores(ingest),
                              !.diff = r.d, !.aborted = r.panicked]

\* The sum of the slots lo..hi (0-based) of vec.
RECURSIVE SlotSum(_, _, _)
SlotSum(vec, lo, hi) == IF hi < lo THEN 0 ELSE SlotSum(vec, lo, hi - 1) + vec[hi + 1]

----------------------------------------------------------------------------
(* SpecSeries: cumsum, diff, shift_fwd and unrolled applied to bounded      *)
(* stores in the orders CounterGroup and its callers apply them.            *)

HospKeys == <<(<<1, "A00-A04">>), (<<2, "A00-A04">>)>>

\* A store of the given length holding the vectors vecs under HospKeys, as
\* get_or_create and slot writes build it.
StoreOf(len, vecs) ==
    [start |-> global_start_date, len |-> len,
     keys |-> [k \in {HospKeys[n] : n \in 1..Len(vecs)} |->
                  (CHOOSE n \in 1..Len(vecs) : HospKeys[n] = k) - 1],
     time_series |-> vecs]

Vectors(len) == [1..len -> 0..MaxVal]

\* The second vector of a two-key store: one count on every day.
Ones(len) == [i \in 1..len |-> 1]

\* The 13-day series of sevens after six empty days.
SevenSevens == [i \in 1..13 |-> IF i <= 6 THEN 0 ELSE 7]

SeriesStores ==
    UNION {{StoreOf(len, <<v>>) : v \in Vectors(len)}
           \cup {StoreOf(len, <<v, Ones(len)>>) : v \in Vectors(len)} : len \in 1..MaxSeriesLen}

\* The orders of calls: from_d1 (cumsum, diff, shift_fwd), from_d7 and the
\* check of its unrolling (unrolled, cumsum, diff), and diff and shift_fwd on
\* a store as it is.
Pipelines ==
    {<<"cumsum", "diff", "shift_fwd">>, <<"unrolled", "cumsum", "diff">>, <<"diff">>,
     <<"shift_fwd">>}

IsPrefix(s, t) == Len(s) <= Len(t) /\ \A i \in 1..Len(s) : s[i] = t[i]

SeriesInit ==
    \/ \E ts \in SeriesStores, w \in 0..(MaxSeriesLen + 1) :
           /\ w <= ts.len + 1
           /\ series = [ts |-> ts, orig |-> ts, prev |-> ts, w |-> w, trail |-> <<>>,
                        panicked |-> FALSE, error |-> "none"]
    \/ series = [ts |-> StoreOf(13, <<SevenSevens>>), orig |-> StoreOf(13, <<SevenSevens>>),
                 prev |-> StoreOf(13, <<SevenSevens>>), w |-> 7, trail |-> <<>>,
                 panicked |-> FALSE, error |-> "none"]

SeriesIdle ==
    series = [ts |-> TimeSeries_new(global_start_date, global_start_date), trail |-> <<"idle">>,
              panicked |-> FALSE]

SeriesCan(op) ==
    /\ ~series.panicked
    /\ \E p \in Pipelines : IsPrefix(Append(series.trail, op), p)

SeriesCumsum ==
    /\ SeriesCan("cumsum")
    /\ series' = [series EXCEPT !.ts = cumsum(series.ts), !.prev = series.ts,
                                !.trail = Append(@, "cumsum")]

SeriesDiff ==
    /\ SeriesCan("diff")
    /\ LET r == diff(series.ts, series.w)
       IN  series' = [series EXCEPT !.ts = r.ts, !.prev = series.ts,
                                    !.trail = Append(@, "diff"),
                                    !.panicked = r.panicked, !.error = r.error]

SeriesShiftFwd ==
    /\ SeriesCan("shift_fwd")
    /\ LET r == shift_fwd(series.ts, series.w)
       IN  series' = [series EXCEPT !.ts = r.ts, !.prev = series.ts,
                                    !.trail = Append(@, "shift_fwd"),
                                    !.panicked = r.panicked,
                                    !.error = IF r.panicked THEN "rotate" ELSE "none"]

SeriesUnrolled ==
    /\ SeriesCan("unrolled")
    /\ series' = [series EXCEPT !.ts = unrolled(series.ts, series.w), !.prev = series.ts,
                                !.trail = Append(@, "unrolled")]

----------------------------------------------------------------------------
(* CounterGroup: cum, d1, d7 and d7s7 of one series.                        *)

\* from_d1 leaving d7s7 unshifted.
from_d1_unshifted(d1) ==
    LET cum == cumsum(d1)
        d7 == diff(cum, 7)
    IN  [panicked |-> d7.panicked, cum |-> cum, d1 |-> d1, d7 |-> d7.ts, d7s7 |-> d7.ts]

from_d1(d1) ==
    LET cum == cumsum(d1)
        d7 == diff(cum, 7)
        d7s7 == shift_fwd(d7.ts, 7)
    IN  [panicked |-> d7.panicked \/ d7s7.panicked,
         cum |-> cum, d1 |-> d1, d7 |-> d7.ts, d7s7 |-> d7s7.ts]

from_d7(d7) ==
    LET d1 == unrolled(d7, 7)
        cum == cumsum(d1)
        d7s7 == shift_fwd(d7, 7)
    IN  [panicked |-> d7s7.panicked, cum |-> cum, d1 |-> d1, d7 |-> d7, d7s7 |-> d7s7.ts]

----------------------------------------------------------------------------
(* SpecGroup: CounterGroups built from bounded series by from_d1 and by     *)
(* from_d7.                                                                 *)

\* The lengths of the series: shorter than a week, and the two longest.
GroupLens == {6, GroupLen - 1, GroupLen}

\* Daily series: at most one count a day.
DailySeries == UNION {[1..len -> {0, 1}] : len \in GroupLens}

\* The trailing seven-day sums of a daily series.
WeekSums(daily) ==
    [i \in 1..Len(daily) |-> SlotSum(daily, IF i - 7 > 0 THEN i - 7 ELSE 0, i - 1)]

GroupInit == \E daily \in DailySeries : group = [op |-> "new", daily |-> daily]

FromD1 ==
    /\ group.op = "new"
    /\ group' = [op |-> "from_d1", daily |-> group.daily, windowed |-> FALSE,
                 input |-> StoreOf(Len(group.daily), <<group.daily>>),
                 g |-> from_d1(StoreOf(Len(group.daily), <<group.daily>>))]

\* from_d7 on a series of seven-day sums, or on a series that is none.
FromD7 ==
    /\ group.op = "new"
    /\ \E windowed \in BOOLEAN :
           LET vec == IF windowed THEN WeekSums(group.daily) ELSE group.daily
           IN  group' = [op |-> "from_d7", daily |-> group.daily, windowed |-> windowed,
                         input |-> StoreOf(Len(vec), <<vec>>),
                         g |-> from_d7(StoreOf(Len(vec), <<vec>>))]

----------------------------------------------------------------------------
(* SpecStore: one store under the calls of TimeSeries<T, u64>, in any       *)
(* order, from the empty store.                                             *)

\* District keys: two Berlin districts, Berlin, and a district elsewhere.
DistrictKeys == {11000, 11001, 11002, 1001}

\* remap_berlin as a key function of rekeyed.
remap_berlin == [id \in DistrictKeys |-> IF id >= 11000 /\ id < 12000 THEN Some(11000)
                                         ELSE Some(id)]

\* A key function that keeps Berlin's districts and drops every other key.
only_berlin == [id \in DistrictKeys |-> IF id >= 11000 /\ id < 12000 THEN Some(id) ELSE None]

KeyFunctions == {remap_berlin, only_berlin}

StoreStart == global_start_date
StoreEnd == global_start_date + StoreLen

\* The stores handed to add: a count of key 11001 on the first day, alone or
\* beside a count of key 1001 on the last day.
OtherCounters ==
    {add_at(TimeSeries_new(StoreStart, StoreEnd), 11001, 0, 1),
     add_at(add_at(TimeSeries_new(StoreStart, StoreEnd), 11001, 0, 1), 1001, StoreLen - 1, 2)}

\* The Diff stores handed to checked_add_signed: key 11001 falling by two on
\* the first day, or key 11002 rising by one on the last.
OtherDiffs ==
    {set_slot(get_or_create(TimeSeries_new(StoreStart, StoreEnd), 11001), 11001, 0, -2),
     set_slot(get_or_create(TimeSeries_new(StoreStart, StoreEnd), 11002), 11002,
              StoreLen - 1, 1)}

StoreInit ==
    store = [ts |-> TimeSeries_new(StoreStart, StoreEnd),
             prev |-> TimeSeries_new(StoreStart, StoreEnd),
             op |-> "new", arg |-> <<>>, panicked |-> FALSE, n |-> 0]

StoreReady == store.op # "idle" /\ ~store.panicked /\ store.n < MaxCalls

Called(op, arg, ts, panicked) ==
    store' = [ts |-> ts, prev |-> store.ts, op |-> op, arg |-> arg, panicked |-> panicked,
              n |-> store.n + 1]

StoreGetOrCreate ==
    /\ StoreReady
    /\ \E k \in DistrictKeys : Called("get_or_create", k, get_or_create(store.ts, k), FALSE)

\* get_or_create(k)[i] += 1, as the loaders count a record.
StoreCount ==
    /\ StoreReady
    /\ \E k \in {11001, 11002, 1001}, i \in {0, StoreLen - 1} :
           Called("count", <<k, i>>, add_at(store.ts, k, i, 1), FALSE)

StoreSynthesize ==
    /\ StoreReady
    /\ \E kin \in {<<11001, 11002>>}, kout \in {11000, 11001} :
           LET r == synthesize(store.ts, kin, kout)
           IN  Called("synthesize", [kin |-> kin, kout |-> kout], r.ts, r.panicked)

StoreCumsum == StoreReady /\ Called("cumsum", <<>>, cumsum(store.ts), FALSE)

StoreDiff ==
    /\ StoreReady
    /\ \E w \in {1, StoreLen + 1} :
           LET r == diff(store.ts, w) IN Called("diff", w, r.ts, r.panicked)

StoreShiftFwd ==
    /\ StoreReady
    /\ \E w \in {1, StoreLen + 1} :
           LET r == shift_fwd(store.ts, w) IN Called("shift_fwd", w, r.ts, r.panicked)

StoreRfillZeroes == StoreReady /\ Called("rfill_zeroes", <<>>, rfill_zeroes(store.ts), FALSE)

StoreAdd ==
    /\ StoreReady
    /\ \E other \in OtherCounters : Called("add", other, add(store.ts, other), FALSE)

StoreCheckedAddSigned ==
    /\ StoreReady
    /\ \E other \in OtherDiffs :
           Called("checked_add_signed", other, checked_add_signed(store.ts, other), FALSE)

\* The program goes on with the store rekeyed returns.
StoreRekeyed ==
    /\ StoreReady
    /\ \E f \in KeyFunctions : Called("rekeyed", f, rekeyed(store.ts, f), FALSE)

StoreUnrolled ==
    /\ StoreReady
    /\ \E w \in {1, StoreLen} : Called("unrolled", w, unrolled(store.ts, w), FALSE)

----------------------------------------------------------------------------
(* Properties of the diff builder (SpecDiff).                               *)

Slots == 0..(NumDays - 1)

\* Two stores hold the same value at every key and slot.
SameValues(a, b) == \A k \in Keys, i \in Slots : ValueAt(a, k, i) = ValueAt(b, k, i)

\* The last record merge_new consumed, and whether submit returned for it.
LastRec == snapshot[pos]
Merged == pos >= 1 /\ pc \in {"merging", "pairs", "done"}

\* The slots at or after the report date of rec whose value in ts is at least m.
Candidates(ts, rec, m) ==
    {i \in Slots : i >= rec.report_date - start /\ ValueAt(ts, RecKey(rec), i) >= m}

C2_NewlyReported ==
    (Merged /\ LastRec.case = "NewlyReported") =>
        LET k == RecKey(LastRec)
            i == date - start
            c == LastRec.case_count
            delay == date - LastRec.report_date
            Added(f, n) == ValueAt(counters[f], k, i) = ValueAt(before[f], k, i) + n
        IN  /\ Added("cases_by_pub", c)
            /\ IF delay <= 28
               THEN Added("cases_delayed", c) /\ Added("case_delay_total", delay * c)
                    /\ Added("late_cases", 0)
               ELSE Added("cases_delayed", 0) /\ Added("case_delay_total", 0)
                    /\ Added("late_cases", c)

\* C2 witness: a newly reported case merged more than 28 days after its report.
C2_Witness ==
    /\ Merged /\ LastRec.case = "NewlyReported"
    /\ date - LastRec.report_date > 28
    /\ ValueAt(counters.late_cases, RecKey(LastRec), date - start) > 0

\* C3 as stated: writeback emits exactly one row for every (slot, key) at
\* which cases, deaths or recovered is not zero in the builder state, whichever
\* store holds the key, and no row where all three are zero.  (This builder
\* keeps no cases_rep_d7 and no cases_retracted.)
C3_RowForEveryNonZero ==
    pc = "done" =>
        \A i \in Slots, k \in Keys :
            LET rows == {r \in datafile.rows : r.date = start + i /\ RecKey(r) = k}
                nonzero == \/ ValueAt(counters.cases_by_pub, k, i) # 0
                           \/ ValueAt(counters.deaths_by_pub, k, i) # 0
                           \/ ValueAt(counters.recovered_by_pub, k, i) # 0
            IN  Cardinality(rows) = IF nonzero THEN 1 ELSE 0

\* C4: a run with no (snapshot, date) pair on an existing artifact writes
\* back the rows it read, with the same field values.
C4_EmptyRunKeepsArtifact ==
    (pc = "done" /\ argc = 0 /\ original.exists) =>
        datafile.exists /\ datafile.rows = original.rows

\* C4 witness: such a run has written back an artifact that has a row.
C4_Witness ==
    pc = "done" /\ argc = 0 /\ original.exists /\ original.rows # {}
    /\ datafile.rows = original.rows

StoreNames ==
    {"cases_by_pub", "cases_delayed", "case_delay_total", "late_cases", "deaths_by_pub",
     "recovered_by_pub"}

\* C5 as stated: after a merge pass over two records every store holds what
\* the pass over the same two records in the other order leaves, from the same
\* state.
C5_OrderIndependent ==
    (pc \in {"pairs", "done"} /\ pos = 2 /\ Len(snapshot) = 2) =>
        LET other == merge_new(pass_start, date, <<snapshot[2], snapshot[1]>>)
        IN  /\ ~other.panicked
            /\ \A f \in StoreNames : Content(counters[f]) = Content(other.d[f])

\* A record whose dates let submit return: both in the calendar, the report
\* date not after the day the publication describes.
InCalendar(d) == d >= start /\ d < end_
DatesInOrder(rec) == InCalendar(date) /\ InCalendar(rec.report_date) /\ rec.report_date <= date

\* The last record merge_new took, whether or not submit returned for it.
Submitted == pos >= 1 /\ pc \in {"merging", "pairs", "done", "failed"}

C7_ConsistentTouchesNothing ==
    Merged =>
        /\ LastRec.case = "Consistent" =>
              \A f \in {"cases_by_pub", "cases_delayed", "case_delay_total", "late_cases"} :
                  SameValues(counters[f], before[f])
        /\ LastRec.death = "Consistent" =>
              SameValues(counters.deaths_by_pub, before.deaths_by_pub)
        /\ LastRec.recovered = "Consistent" =>
              SameValues(counters.recovered_by_pub, before.recovered_by_pub)

\* C7 witness: a merged record with a Consistent case flag whose newly
\* reported death was counted.
C7_Witness ==
    /\ Merged /\ LastRec.case = "Consistent" /\ LastRec.death = "NewlyReported"
    /\ ~SameValues(counters.deaths_by_pub, before.deaths_by_pub)

C10_DateIndexInverse ==
    /\ cal.op = "index_date" =>
           IF cal.arg >= 0 /\ cal.arg < cal.ts.len
           THEN cal.res # None /\ cal.back = Some(cal.arg)
           ELSE cal.res = None
    /\ cal.op = "date_index" =>
           IF cal.arg >= cal.ts.start /\ cal.arg < cal.ts.start + cal.ts.len
           THEN cal.res # None /\ cal.back = Some(cal.arg)
           ELSE cal.res = None

\* C10 witness: a day of the calendar other than its first went to its slot
\* and back.
C10_Witness ==
    /\ cal.op = "date_index" /\ cal.arg > cal.ts.start /\ cal.res # None
    /\ cal.back = Some(cal.arg)

\* C9 as stated: a hospitalization or ICU record whose date is outside the
\* calendar is skipped and leaves every store as it was (no key created, no
\* slot written); an infection record whose report date, reference date or
\* publication day P' is outside the calendar aborts the run.
C9_OutOfRangePerStream ==
    /\ (ingest.op \in {"hosp", "icu"} /\ ~InCalendar(ingest.rec.date)) =>
           ~ingest.aborted /\ IngestStores(ingest) = ingest.prev
    /\ (/\ ingest.op = "case"
        /\ ~(InCalendar(ingest.rec.report_date) /\ InCalendar(ingest.rec.reference_date))) =>
           ingest.aborted
    /\ (/\ ingest.op = "diff"
        /\ ~(InCalendar(ingest.rec.report_date) /\ InCalendar(ingest.pub))) =>
           ingest.aborted

----------------------------------------------------------------------------
(* Properties of cumsum, diff, shift_fwd and unrolled (SpecSeries).         *)

SeriesSlots == 0..(series.ts.len - 1)
SeriesVecs == 1..Len(series.ts.time_series)
LastCall == series.trail[Len(series.trail)]

\* C12: cumsum followed by diff(w), 1 <= w <= len, leaves at every slot
\* i >= w the sum of the original slots i-w+1 .. i and zero at the slots
\* 0 .. w-1 (so for w = 1 the original series with slot 0 zeroed).
C12_CumsumDiffIsWindowSum ==
    (series.trail = <<"cumsum", "diff">> /\ series.w >= 1 /\ series.w <= series.ts.len) =>
        /\ ~series.panicked
        /\ \A n \in SeriesVecs, i \in SeriesSlots :
               series.ts.time_series[n][i + 1] =
                   IF i >= series.w
                   THEN SlotSum(series.orig.time_series[n], i - series.w + 1, i)
                   ELSE 0
        /\ series.w = 1 =>
               \A n \in SeriesVecs, i \in SeriesSlots :
                   series.ts.time_series[n][i + 1] =
                       IF i = 0 THEN 0 ELSE series.orig.time_series[n][i + 1]

\* C12 witness: a window of two or more days summed to more than one day's
\* count.
C12_Witness ==
    /\ series.trail = <<"cumsum", "diff">> /\ series.w >= 2 /\ ~series.panicked
    /\ \E n \in SeriesVecs, i \in SeriesSlots :
           /\ i >= series.w
           /\ series.ts.time_series[n][i + 1] > series.orig.time_series[n][i + 1]
           /\ series.orig.time_series[n][i + 1] > 0

\* The store before the last call has a slot i in [w, len) smaller than slot i-w.
NonCumulativeInput ==
    \E n \in 1..Len(series.prev.time_series), i \in series.w..(series.prev.len - 1) :
        series.prev.time_series[n][i + 1] < series.prev.time_series[n][i - series.w + 1]

\* C13: diff(w) aborts with the error that names key, slot and values exactly
\* when some series has a slot i in [w, len) below its slot i-w before the
\* call; when it returns, every slot i >= w holds the difference of the two
\* and no slot is negative.
C13_DiffFailsOnNonCumulative ==
    (series.trail # <<>> /\ LastCall = "diff") =>
        /\ (series.error = "non-cumulative") = NonCumulativeInput
        /\ series.error = "non-cumulative" => series.panicked
        /\ ~series.panicked =>
              \A n \in SeriesVecs, i \in SeriesSlots :
                  /\ series.ts.time_series[n][i + 1] >= 0
                  /\ i >= series.w =>
                        series.ts.time_series[n][i + 1] =
                            series.prev.time_series[n][i + 1]
                                - series.prev.time_series[n][i - series.w + 1]

\* C13 witness: diff met a series that falls after a rise and aborted.
C13_Witness ==
    /\ series.trail = <<"diff">> /\ series.error = "non-cumulative" /\ series.w >= 1
    /\ \E n \in 1..Len(series.prev.time_series) : series.prev.time_series[n][1] > 0

\* C14: shift_fwd(w), 0 <= w < len, gives s'[i] = s[i-w] for i >= w and 0
\* for i < w, for every key.
C14_ShiftFwd ==
    (series.trail # <<>> /\ LastCall = "shift_fwd" /\ series.w < series.ts.len) =>
        /\ ~series.panicked
        /\ \A n \in SeriesVecs, i \in SeriesSlots :
               series.ts.time_series[n][i + 1] =
                   IF i >= series.w THEN series.prev.time_series[n][i - series.w + 1] ELSE 0

\* C14 witness: a store of two keys was shifted by at least a day and a
\* count moved to a later slot.
C14_Witness ==
    /\ series.trail = <<"shift_fwd">> /\ series.w >= 1 /\ series.w < series.ts.len
    /\ Len(series.ts.time_series) = 2
    /\ series.prev.time_series[1][1] > 0
    /\ series.ts.time_series[1][series.w + 1] = series.prev.time_series[1][1]

\* C15 as stated: shift_fwd(w) with w >= len (w > len included) on a store
\* with at least one key returns and leaves every slot zero.
C15_ShiftFwdBeyondLen ==
    (/\ series.trail # <<>> /\ LastCall = "shift_fwd" /\ series.w >= series.prev.len
     /\ Len(series.prev.time_series) >= 1) =>
        /\ ~series.panicked
        /\ \A n \in SeriesVecs, i \in SeriesSlots : series.ts.time_series[n][i + 1] = 0

UnrolledSevenSevens ==
    series.trail = <<"unrolled">> /\ series.w = 7
    /\ series.prev = StoreOf(13, <<SevenSevens>>)

\* C16 as stated: unrolled(7) of [0,0,0,0,0,0,7,7,7,7,7,7,7] is
\* [0,0,0,0,0,0,1,1,1,1,1,1,1].
C16_UnrolledExampleOnes ==
    UnrolledSevenSevens =>
        series.ts.time_series[1] = [i \in 1..13 |-> IF i <= 6 THEN 0 ELSE 1]

\* C16 amended: unrolled(7) of [0,0,0,0,0,0,7,7,7,7,7,7,7] is
\* [0,0,0,0,0,0,7,0,0,0,0,0,0]: seven cases on the seventh day.
C16_UnrolledExample ==
    UnrolledSevenSevens =>
        series.ts.time_series[1] = [i \in 1..13 |-> IF i = 7 THEN 7 ELSE 0]

\* C16 witness: unrolled(7) was applied to the example.
C16_Witness == UnrolledSevenSevens /\ series.ts.time_series[1][7] = 7

\* vec is the trailing-w sum of some non-negative daily series.
IsTrailingSum(vec, w) ==
    \E d \in Vectors(Len(vec)) :
        \A i \in 0..(Len(vec) - 1) :
            vec[i + 1] = SlotSum(d, IF i - w + 1 > 0 THEN i - w + 1 ELSE 0, i)

UnrolledTrailingSum ==
    /\ series.trail = <<"unrolled", "cumsum", "diff">>
    /\ series.orig.len <= MaxSeriesLen
    /\ series.w >= 1
    /\ \A n \in 1..Len(series.orig.time_series) :
           IsTrailingSum(series.orig.time_series[n], series.w)

\* C17 as stated: when s is the trailing-w sum of a non-negative daily
\* series, unrolled(w), cumsum and diff(w) give s back at every slot.
C17_UnrolledRoundTrip ==
    UnrolledTrailingSum => (~series.panicked /\ series.ts = series.orig)

\* C17 amended: when s is the trailing-w sum of a non-negative daily series
\* and 1 <= w <= len, unrolled(w), cumsum and diff(w) give s back at every
\* slot i >= w, and zero at the slots 0 .. w-1.
C17_UnrolledRoundTripFromW ==
    (UnrolledTrailingSum /\ series.w <= series.orig.len) =>
        /\ ~series.panicked
        /\ \A n \in SeriesVecs, i \in SeriesSlots :
               series.ts.time_series[n][i + 1] =
                   IF i >= series.w THEN series.orig.time_series[n][i + 1] ELSE 0

\* C17 witness: a window sum of two days was unrolled and summed again to
\* itself at a slot past the window.
C17_Witness ==
    /\ UnrolledTrailingSum /\ series.w = 2 /\ series.orig.len > 2 /\ ~series.panicked
    /\ series.orig.time_series[1][3] > 1
    /\ series.ts.time_series[1][3] = series.orig.time_series[1][3]

----------------------------------------------------------------------------
(* Properties of the keyed store (SpecStore).                               *)

\* Every key of ts owns one vector of ts, of exactly ts.len slots.
WellShaped(ts) ==
    /\ \A k \in DOMAIN ts.keys :
           /\ ts.keys[k] \in 0..(Len(ts.time_series) - 1)
           /\ Len(ts.time_series[ts.keys[k] + 1]) = ts.len
    /\ \A k1, k2 \in DOMAIN ts.keys : ts.keys[k1] = ts.keys[k2] => k1 = k2

\* C11: after any sequence of get_or_create, synthesize, cumsum, diff,
\* shift_fwd, rfill_zeroes, add, checked_add_signed, rekeyed and unrolled
\* calls every key of the store owns a vector of exactly len slots, and a
\* key that get_or_create creates starts with every slot zero.
C11_VectorsHaveLenSlots ==
    store.op # "idle" =>
        /\ WellShaped(store.ts)
        /\ (store.op = "get_or_create" /\ store.arg \notin keys(store.prev)) =>
               /\ store.arg \in keys(store.ts)
               /\ unwrap(get(store.ts, store.arg)) = [i \in 1..store.ts.len |-> 0]

\* C11 witness: get_or_create made a key in a store that held counts, after
\* two other calls.
C11_Witness ==
    /\ store.op = "get_or_create" /\ store.n = 3
    /\ store.arg \notin keys(store.prev) /\ store.arg \in keys(store.ts)
    /\ \E k \in keys(store.prev) : ValueAt(store.prev, k, 0) > 0

\* The sum of slot i of the vectors of the keys ks (a set) of ts.
RECURSIVE SumOver(_, _, _)
SumOver(ts, ks, i) ==
    IF ks = {} THEN 0
    ELSE LET k == CHOOSE k \in ks : TRUE
         IN  ValueAt(ts, k, i) + SumOver(ts, ks \ {k}, i)

\* C18: rekeyed(f) returns a store with the start and len of the source whose
\* keys are the images of the source's keys under f (a key with f absent has
\* none), each holding at every slot the sum of the source's vectors of the
\* keys mapped to it.
C18_RekeyedSums ==
    store.op = "rekeyed" =>
        /\ store.ts.start = store.prev.start /\ store.ts.len = store.prev.len
        /\ WellShaped(store.ts)
        /\ keys(store.ts) =
               {unwrap(store.arg[k]) : k \in {k \in keys(store.prev) : store.arg[k] # None}}
        /\ \A k_new \in keys(store.ts), i \in 0..(store.ts.len - 1) :
               ValueAt(store.ts, k_new, i) =
                   SumOver(store.prev,
                           {k \in keys(store.prev) : store.arg[k] = Some(k_new)}, i)

\* C18 witness: two districts with counts were merged into Berlin beside a
\* district that kept its key.
C18_Witness ==
    /\ store.op = "rekeyed" /\ store.arg = remap_berlin
    /\ {11001, 11002} \subseteq keys(store.prev)
    /\ ValueAt(store.prev, 11001, 0) > 0 /\ ValueAt(store.prev, 11002, 0) > 0
    /\ ValueAt(store.ts, 11000, 0)
           = ValueAt(store.prev, 11001, 0) + ValueAt(store.prev, 11002, 0)

\* The sum of slot i of the vectors of the keys listed in kin from position p.
RECURSIVE KinSum(_, _, _, _)
KinSum(ts, kin, p, i) ==
    IF p > Len(kin) THEN 0 ELSE ValueAt(ts, kin[p], i) + KinSum(ts, kin, p + 1, i)

\* C19 as stated: after synthesize(kin, kout) on any store the vector of kout
\* holds at every slot the sum of the vectors of the keys of kin (an absent
\* key counting zero) and the vector of every other key is as before.
C19_SynthesizeSums ==
    store.op = "synthesize" =>
        /\ ~store.panicked
        /\ store.arg.kout \in keys(store.ts)
        /\ \A i \in 0..(store.ts.len - 1) :
               ValueAt(store.ts, store.arg.kout, i) = KinSum(store.prev, store.arg.kin, 1, i)
        /\ \A k \in keys(store.prev) \ {store.arg.kout} :
               get(store.ts, k) = get(store.prev, k)

\* C26: after unrolled(w), w >= 1, the sum of the output over the trailing
\* window max(0, i-w+1) .. i is the input s[i] plus the negative carry
\* outstanding after slot i, for every key and slot; so a window of the
\* output equals the input value wherever the carry is zero.
C26_UnrolledWindowPlusCarry ==
    (series.trail = <<"unrolled">> /\ series.w >= 1) =>
        \A n \in SeriesVecs, i \in SeriesSlots :
            SlotSum(series.ts.time_series[n], IF i - series.w + 1 > 0 THEN i - series.w + 1 ELSE 0, i)
                = series.prev.time_series[n][i + 1]
                  + neg_carry_after(series.prev.time_series[n], series.w, i)

\* C26 witness: unrolled(2) of a series that falls faster than its window
\* allows: a carry is outstanding after slot 2 and resolved after slot 3.
C26_Witness ==
    /\ series.trail = <<"unrolled">> /\ series.w = 2 /\ series.ts.len = 4
    /\ \E n \in SeriesVecs :
          /\ neg_carry_after(series.prev.time_series[n], 2, 2) > 0
          /\ neg_carry_after(series.prev.time_series[n], 2, 3) = 0
          /\ series.ts.time_series[n][4] > 0

----------------------------------------------------------------------------
(* Properties of CounterGroup (SpecGroup).                                  *)

GroupSlots == 0..(group.input.len - 1)
Cum(d) == group.g.cum.time_series[1][d + 1]
D1(d) == group.g.d1.time_series[1][d + 1]
D7(d) == group.g.d7.time_series[1][d + 1]
D7S7(d) == group.g.d7s7.time_series[1][d + 1]

DayDifference == \A d \in GroupSlots : d >= 1 => Cum(d) - Cum(d - 1) = D1(d)
WeekDifference == \A d \in GroupSlots : d >= 7 => Cum(d) - Cum(d - 7) = D7(d)
WeekShift == \A d \in GroupSlots : D7S7(d) = IF d >= 7 THEN D7(d - 7) ELSE 0

Built == group.op \in {"from_d1", "from_d7"} /\ ~group.g.panicked

\* C20 as stated: in a CounterGroup built by from_d1 or from_d7 from any
\* series, cum(d) - cum(d-1) = d1(d) for d >= 1, cum(d) - cum(d-7) = d7(d) for
\* d >= 7, and d7s7(d) = d7(d-7) for d >= 7, 0 for d < 7.
C20_GroupDifferences == Built => (DayDifference /\ WeekDifference /\ WeekShift)

\* C20 amended: the three equations hold in a CounterGroup built by from_d1
\* from any series, and by from_d7 from a series that is the trailing
\* seven-day sum of a non-negative daily series; built by from_d7 from any
\* other series, the group satisfies the first and the third.
C20_GroupDifferencesOfWeekSums ==
    Built =>
        /\ DayDifference /\ WeekShift
        /\ (group.op = "from_d1" \/ group.windowed) => WeekDifference

\* C20 witness: from_d7 built a group from seven-day sums that rise and fall
\* past the first week.
C20_Witness ==
    /\ Built /\ group.op = "from_d7" /\ group.windowed /\ group.input.len > 8
    /\ D7(7) > D7(8) /\ D7(8) > 0 /\ D7S7(7) > 0

----------------------------------------------------------------------------
(* src/src/influxdb/readout.rs: the line-protocol encoder.  A string is a   *)
(* sequence of one-character strings; the writer is the sequence of the      *)
(* characters written so far.                                                *)

\* The characters of the strings handed to the encoder.
Chars == {"\\", ",", " ", "\t", "\n", "\r", "=", "\"", "a"}

\* write_escaped that writes the backslash in place of the matched character.
write_escaped_replacing(w, s, pat) ==
    w \o [i \in 1..Len(s) |-> IF s[i] \in pat THEN "\\" ELSE s[i]]

\* fn write_escaped(w, s, pat): the loop over s.match_indices(pat), prev and
\* idx being 0-based byte offsets into s, and the write of the rest.
RECURSIVE write_escaped_from(_, _, _, _, _)
write_escaped_from(w, s, pat, prev, idx) ==
    IF idx = Len(s)
    THEN IF prev # Len(s) THEN w \o SubSeq(s, prev + 1, Len(s)) ELSE w
    ELSE IF s[idx + 1] \in pat
         THEN write_escaped_from(w \o SubSeq(s, prev + 1, idx) \o <<"\\">> \o <<s[idx + 1]>>,
                                 s, pat, idx + 1, idx + 1)
         ELSE write_escaped_from(w, s, pat, prev, idx + 1)

write_escaped(w, s, pat) == write_escaped_from(w, s, pat, 0, 0)

\* pub fn write_name(w, s)
write_name(w, s) == write_escaped(w, s, {"\\", ",", " ", "\t", "\n", "\r", "="})

\* pub fn write_measurement(w, s)
write_measurement(w, s) == write_escaped(w, s, {"\\", ",", " ", "\t", "\n", "\r"})

\* The decimal digits, and "{}" of an unsigned and of a signed integer.
DigitChars == <<"0", "1", "2", "3", "4", "5", "6", "7", "8", "9">>

RECURSIVE display_unsigned(_)
display_unsigned(n) ==
    IF n < 10 THEN <<DigitChars[n + 1]>>
    ELSE display_unsigned(n \div 10) \o <<DigitChars[(n % 10) + 1]>>

display_signed(n) == IF n < 0 THEN <<"-">> \o display_unsigned(-n) ELSE display_unsigned(n)

\* "{:0width}" of an unsigned integer: zeros in front up to the width, never a cut.
display_zero_padded(n, width) ==
    LET digits == display_unsigned(n) IN
    IF Len(digits) >= width THEN digits
    ELSE [i \in 1..(width - Len(digits)) |-> "0"] \o digits

\* pub enum Precision
Precisions == {"Nanoseconds", "Microseconds", "Milliseconds", "Seconds"}

\* chrono: DateTime<Utc>::timestamp(), timestamp_subsec_nanos() (which is
\* 1_000_000_000 or more within a leap second), _micros() and _millis().
timestamp(ts) == ts.secs

timestamp_subsec_nanos(ts) == ts.nanos

timestamp_subsec_micros(ts) == ts.nanos \div 1000

timestamp_subsec_millis(ts) == ts.nanos \div 1000000

\* encode_timestamp without the clamp of the sub-second part.
encode_timestamp_unclamped(precision, w, ts) ==
    CASE precision = "Seconds" -> w \o display_signed(timestamp(ts))
      [] precision = "Milliseconds" ->
            w \o display_signed(timestamp(ts))
              \o display_zero_padded(timestamp_subsec_millis(ts), 3)
      [] precision = "Microseconds" ->
            w \o display_signed(timestamp(ts))
              \o display_zero_padded(timestamp_subsec_micros(ts), 6)
      [] precision = "Nanoseconds" ->
            w \o display_signed(timestamp(ts))
              \o display_zero_padded(timestamp_subsec_nanos(ts), 9)

\* pub fn Precision::encode_timestamp(&self, w, ts)
encode_timestamp(precision, w, ts) ==
    CASE precision = "Seconds" -> w \o display_signed(timestamp(ts))
      [] precision = "Milliseconds" ->
            LET ms0 == timestamp_subsec_millis(ts)
                ms == IF ms0 >= 999 THEN 999 ELSE ms0
            IN w \o display_signed(timestamp(ts)) \o display_zero_padded(ms, 3)
      [] precision = "Microseconds" ->
            LET us0 == timestamp_subsec_micros(ts)
                us == IF us0 >= 999999 THEN 999999 ELSE us0
            IN w \o display_signed(timestamp(ts)) \o display_zero_padded(us, 6)
      [] precision = "Nanoseconds" ->
            LET ns0 == timestamp_subsec_nanos(ts)
                ns == IF ns0 >= 999999999 THEN 999999999 ELSE ns0
            IN w \o display_signed(timestamp(ts)) \o display_zero_padded(ns, 9)

----------------------------------------------------------------------------
(* SpecReadout: a string is written as a measurement or as a name, or an    *)
(* instant is written as a timestamp, into an empty writer.                 *)

\* The strings: every sequence of at most MaxNameLen characters.
Names == UNION {[1..n -> Chars] : n \in 0..MaxNameLen}

\* The instants: whole seconds (before and after the epoch) and nanoseconds
\* of the second, up to the end of a leap second.
InstantSeconds == {-1, 0, 7, 1609459199}

InstantNanos ==
    {0, 1, 999, 1000, 999999, 1000000, 12000000, 998999999, 999000000, 999999000,
     999999998, 999999999, 1000000000, 1000000001, 1500000000, 1999999999}

Instants == [secs : InstantSeconds, nanos : InstantNanos]

LineInit ==
    \/ \E s \in Names : line = [op |-> "new", kind |-> "string", s |-> s]
    \/ \E ts \in Instants, precision \in Precisions :
          line = [op |-> "new", kind |-> "instant", ts |-> ts, precision |-> precision]

WriteMeasurement ==
    /\ line.op = "new" /\ line.kind = "string"
    /\ line' = [op |-> "write_measurement", s |-> line.s, out |-> write_measurement(<<>>, line.s)]

WriteName ==
    /\ line.op = "new" /\ line.kind = "string"
    /\ line' = [op |-> "write_name", s |-> line.s, out |-> write_name(<<>>, line.s)]

EncodeTimestamp ==
    /\ line.op = "new" /\ line.kind = "instant"
    /\ line' = [op |-> "encode_timestamp", ts |-> line.ts, precision |-> line.precision,
                out |-> encode_timestamp(line.precision, <<>>, line.ts)]

----------------------------------------------------------------------------
(* Properties of SpecReadout.                                               *)

\* The characters the claim names for a measurement, and for a name.
EscapedInMeasurement == {"\\", ",", " ", "\t", "\n", "\r"}

EscapedInName == EscapedInMeasurement \cup {"="}

\* out is s with one backslash in front of every character of escaped, and
\* every character of s copied in order.
IsEscaped(out, s, escaped) ==
    /\ Len(out) = Len(s) + Cardinality({i \in 1..Len(s) : s[i] \in escaped})
    /\ \A i \in 1..Len(s) :
          LET at == i + Cardinality({j \in 1..i : s[j] \in escaped}) IN
          /\ out[at] = s[i]
          /\ s[i] \in escaped => out[at - 1] = "\\"

\* C21: a measurement is written with one backslash before every backslash,
\* comma, space, tab, newline and carriage return; a name with '=' escaped in
\* addition; every other character is copied unchanged and in order.
C21_Escaping ==
    /\ line.op = "write_measurement" => IsEscaped(line.out, line.s, EscapedInMeasurement)
    /\ line.op = "write_name" => IsEscaped(line.out, line.s, EscapedInName)

\* C21 witness: a name with '=', an escaped character and a plain one was written.
C21_Witness ==
    /\ line.op = "write_name" /\ line.s = <<"=", "a", ",">>
    /\ line.out = <<"\\", "=", "a", "\\", ",">>

\* The value of a sequence of decimal digits.
RECURSIVE DigitsValue(_)
DigitsValue(digits) ==
    IF digits = <<>> THEN 0
    ELSE 10 * DigitsValue(SubSeq(digits, 1, Len(digits) - 1))
         + (CHOOSE d \in 0..9 : DigitChars[d + 1] = digits[Len(digits)])

\* The number of sub-second digits of a precision, and 10 to that power.
SubsecDigits(precision) ==
    CASE precision = "Milliseconds" -> 3
      [] precision = "Microseconds" -> 6
      [] precision = "Nanoseconds" -> 9

RECURSIVE TenTo(_)
TenTo(k) == IF k = 0 THEN 1 ELSE 10 * TenTo(k - 1)

\* C22: for ms, us and ns the timestamp is the whole-second count followed by
\* exactly k digits whose value is min(sub-second part, 10^k - 1), so a leap
\* second never carries into the seconds.
C22_TimestampClamp ==
    (line.op = "encode_timestamp" /\ line.precision # "Seconds") =>
        LET k == SubsecDigits(line.precision)
            seconds == display_signed(line.ts.secs)
            subsec == line.ts.nanos \div TenTo(9 - k)
        IN /\ Len(line.out) = Len(seconds) + k
           /\ SubSeq(line.out, 1, Len(seconds)) = seconds
           /\ \A i \in (Len(seconds) + 1)..Len(line.out) :
                 \E d \in 1..10 : DigitChars[d] = line.out[i]
           /\ DigitsValue(SubSeq(line.out, Len(seconds) + 1, Len(line.out)))
                 = Min({subsec, TenTo(k) - 1})

\* C22 witness: an instant half-way through a leap second was written in
\* milliseconds with the sub-second field 999.
C22_Witness ==
    /\ line.op = "encode_timestamp" /\ line.precision = "Milliseconds"
    /\ line.ts = [secs |-> 1609459199, nanos |-> 1500000000]
    /\ line.out = <<"1", "6", "0", "9", "4", "5", "9", "1", "9", "9", "9", "9", "9">>

----------------------------------------------------------------------------
(* src/src/influxdb/mod.rs: Client::post.  A response is what req.send()    *)
(* gives: a transport failure, or a response with a status code.            *)

\* reqwest::StatusCode: the codes a response can carry.
StatusCodes == 100..999

\* Response::error_for_status_ref: an error for a client or a server error status.
error_for_status_ref(status) ==
    IF status >= 400 /\ status <= 599 THEN "Err" ELSE "Ok"

\* post that takes every status that is no error for success.
post_any_success(consistent, response) ==
    IF ~consistent THEN [panicked |-> TRUE, result |-> "none"]
    ELSE IF ~response.sent THEN [panicked |-> FALSE, result |-> "Request"]
    ELSE IF error_for_status_ref(response.status) = "Ok"
         THEN [panicked |-> FALSE, result |-> "Ok"]
         ELSE [panicked |-> FALSE, result |-> "Request"]

\* pub fn Client::post(&self, database, retention_policy, auth, precision,
\* readouts): consistent says that every readout has the precision of the
\* call; the result is Ok or the variant of Error.
post(consistent, response) ==
    IF ~consistent THEN [panicked |-> TRUE, result |-> "none"]
    ELSE IF ~response.sent THEN [panicked |-> FALSE, result |-> "Request"]
    ELSE IF error_for_status_ref(response.status) = "Ok"
         THEN IF response.status = 204
              THEN [panicked |-> FALSE, result |-> "Ok"]
              ELSE [panicked |-> FALSE, result |-> "UnexpectedSuccessStatus"]
         ELSE CASE response.status \in {403, 401} ->
                      [panicked |-> FALSE, result |-> "PermissionError"]
                [] response.status \in {400, 413} ->
                      [panicked |-> FALSE, result |-> "DataError"]
                [] response.status = 404 ->
                      [panicked |-> FALSE, result |-> "DatabaseNotFound"]
                [] OTHER -> [panicked |-> FALSE, result |-> "Request"]

----------------------------------------------------------------------------
(* SpecClient: one call of post and the response the server gives to it.     *)

Responses ==
    {[sent |-> FALSE, status |-> 0]} \cup [sent : {TRUE}, status : StatusCodes]

ClientInit ==
    \E consistent \in BOOLEAN, response \in Responses :
        client = [op |-> "new", consistent |-> consistent, response |-> response]

Post ==
    /\ client.op = "new"
    /\ LET r == post(client.consistent, client.response) IN
       client' = [op |-> "post", consistent |-> client.consistent,
                  response |-> client.response,
                  panicked |-> r.panicked, result |-> r.result]

----------------------------------------------------------------------------
(* Properties of SpecClient.                                                *)

\* post has returned on a response with a status.
Posted == client.op = "post" /\ ~client.panicked /\ client.response.sent

\* C23: post returns success only on status 204; 401 or 403 gives the
\* permission error, 400 or 413 the data error, 404 the database-not-found
\* error, any other 4xx/5xx the transport error, and any non-error status
\* other than 204 the unexpected-success error.
C23_StatusMapping ==
    /\ (client.op = "post" /\ ~client.panicked /\ client.result = "Ok") =>
          (client.response.sent /\ client.response.status = 204)
    /\ Posted =>
          LET status == client.response.status IN
          client.result =
             (CASE status = 204 -> "Ok"
                [] status \in {401, 403} -> "PermissionError"
                [] status \in {400, 413} -> "DataError"
                [] status = 404 -> "DatabaseNotFound"
                [] status \in (400..599) \ {400, 401, 403, 404, 413} -> "Request"
                [] OTHER -> "UnexpectedSuccessStatus")

\* C23 witness: post answered a 200 with the unexpected-success error.
C23_Witness ==
    Posted /\ client.response.status = 200 /\ client.result = "UnexpectedSuccessStatus"

----------------------------------------------------------------------------
(* src/src/bin/rki_to_influx.rs: RawCaseData, CookedCaseData and            *)
(* stream_data.  Its Counters (src/src/lib.rs) are the stores of the engine  *)
(* above with the same cumsum, diff and shift_fwd; a line is the key, the    *)
(* slot of the date and the field values of one sample of a readout.         *)

\* CookedCaseData::cook: every store becomes a group by from_d1, which aborts
\* in diff(7) on a store with a key and fewer than seven days.
cook(raw) ==
    LET cases_by_ref == from_d1(raw.cases_by_ref)
        cases_by_report == from_d1(raw.cases_by_report)
        deaths == from_d1(raw.deaths)
        recovered == from_d1(raw.recovered)
    IN  [panicked |-> \/ cases_by_ref.panicked \/ cases_by_report.panicked
                      \/ deaths.panicked \/ recovered.panicked,
         cases_by_ref |-> cases_by_ref, cases_by_report |-> cases_by_report,
         deaths |-> deaths, recovered |-> recovered]

\* stream_data: src_vecs, the sixteen stores behind the first sixteen fields.
src_vecs(data) ==
    <<data.cases_by_report.cum, data.cases_by_report.d1,
      data.cases_by_report.d7, data.cases_by_report.d7s7,
      data.cases_by_ref.cum, data.cases_by_ref.d1,
      data.cases_by_ref.d7, data.cases_by_ref.d7s7,
      data.deaths.cum, data.deaths.d1, data.deaths.d7, data.deaths.d7s7,
      data.recovered.cum, data.recovered.d1, data.recovered.d7, data.recovered.d7s7>>

\* stream_data's debug assertion on the key set: with debug_assertions it
\* requires of every entry that the number of its tag values differs from
\* the number of tag names.
keyset_assertion_fails(debug_assertions, tags_len, keyset) ==
    debug_assertions /\ \E n \in 1..Len(keyset) : ~(keyset[n].tagv_len # tags_len)

\* stream_data: fieldv of key k at slot i, absent values written as 0, the
\* population appended when there is one.
fieldv(data, population, k, i) ==
    LET values == [n \in 1..16 |-> unwrap_or(get_value(src_vecs(data)[n], k, i), 0)] IN
    IF population # None
    THEN Append(values, unwrap_or(get_value(unwrap(population), k, i), 0))
    ELSE values

\* stream_data: the samples of the readout after the loop over the key set
\* at slot i; a sample beyond those of the readout is pushed, another one
\* gets its field values replaced.
samples_at(samples, data, population, keyset, i) ==
    [k_index \in 1..(IF Len(samples) > Len(keyset) THEN Len(samples) ELSE Len(keyset)) |->
        IF k_index > Len(keyset) THEN samples[k_index]
        ELSE [k |-> keyset[k_index].k, tagv_len |-> keyset[k_index].tagv_len,
              fieldv |-> fieldv(data, population, keyset[k_index].k, i)]]

\* Readout::write: one line for every sample of the readout.
readout_lines(samples, i) ==
    [n \in 1..Len(samples) |-> [k |-> samples[n].k, i |-> i, fieldv |-> samples[n].fieldv]]

----------------------------------------------------------------------------
(* SpecStreamer: the stores are cooked and streamed, one POST for a date.   *)

\* The keys, and the number of tag names of the measurement.
StreamKeys == {"A", "B"}

TagNames == 2

\* The calendars: three days, and the StreamDays days a cooked store needs.
StreamLens == {3, StreamDays}

\* A store of len days in which every key of ks has one count, on day 0 for
\* the first key and on day 1 for the others.
CountedStore(len, ks) ==
    LET order == IF ks = StreamKeys THEN <<"A", "B">>
                 ELSE IF ks = {} THEN <<>> ELSE <<CHOOSE k \in ks : TRUE>>
    IN  [start |-> global_start_date, len |-> len,
         keys |-> [k \in ks |-> (CHOOSE n \in 1..Len(order) : order[n] = k) - 1],
         time_series |-> [n \in 1..Len(order) |-> [d \in 1..len |-> IF d = n THEN 1 ELSE 0]]]

\* The key sets handed to stream_data: every order of distinct keys.
KeySets(tagv_len) ==
    {<<>>} \cup {<<[k |-> k, tagv_len |-> tagv_len]>> : k \in StreamKeys}
           \cup {<<[k |-> p[1], tagv_len |-> tagv_len], [k |-> p[2], tagv_len |-> tagv_len]>> :
                    p \in {q \in StreamKeys \X StreamKeys : q[1] # q[2]}}

\* What the server answers to the POST of a date.
StreamStatuses == {204, 503}

StreamerInit ==
    \E len \in StreamLens, cases \in SUBSET StreamKeys, deaths \in SUBSET StreamKeys,
       recovered \in {{}, {"A"}}, populated \in SUBSET StreamKeys,
       with_population \in BOOLEAN, debug_assertions \in BOOLEAN,
       tagv_len \in {TagNames, TagNames + 1} :
    \E keyset \in KeySets(tagv_len) :
        /\ with_population \/ populated = {}
        /\ streamer =
              [pc |-> "raw", debug_assertions |-> debug_assertions, keyset |-> keyset,
               raw |-> [cases_by_ref |-> CountedStore(len, cases),
                        cases_by_report |-> CountedStore(len, cases),
                        deaths |-> CountedStore(len, deaths),
                        recovered |-> CountedStore(len, recovered)],
               population |-> IF with_population THEN Some(CountedStore(len, populated))
                              ELSE None]

\* main: CookedCaseData::cook(raw_counters)
Cook ==
    /\ streamer.pc = "raw"
    /\ LET data == cook(streamer.raw) IN
       IF data.panicked
       THEN streamer' = [streamer EXCEPT !.pc = "cook panicked"]
       ELSE streamer' =
               [pc |-> "cooked", debug_assertions |-> streamer.debug_assertions,
                keyset |-> streamer.keyset, population |-> streamer.population,
                data |-> data]

\* stream_data up to its loop: the assertion on the key set and the readout.
StreamBegin ==
    /\ streamer.pc = "cooked"
    /\ IF keyset_assertion_fails(streamer.debug_assertions, TagNames, streamer.keyset)
       THEN streamer' = [pc |-> "panicked", debug_assertions |-> streamer.debug_assertions,
                         keyset |-> streamer.keyset, population |-> streamer.population,
                         data |-> streamer.data, i |-> 0, samples |-> <<>>, posted |-> <<>>]
       ELSE streamer' = [pc |-> "streaming", debug_assertions |-> streamer.debug_assertions,
                         keyset |-> streamer.keyset, population |-> streamer.population,
                         data |-> streamer.data, i |-> 0, samples |-> <<>>, posted |-> <<>>]

\* One pass of the loop over the dates: the samples of slot i are made and
\* posted; an error of post is returned by stream_data.
StreamDate ==
    /\ streamer.pc = "streaming"
    /\ streamer.i < streamer.data.cases_by_report.cum.len
    /\ \E status \in StreamStatuses :
          LET samples == samples_at(streamer.samples, streamer.data, streamer.population,
                                    streamer.keyset, streamer.i)
              answer == post(TRUE, [sent |-> TRUE, status |-> status])
          IN  IF answer.result = "Ok"
              THEN streamer' = [streamer EXCEPT
                                   !.samples = samples,
                                   !.posted = @ \o readout_lines(samples, streamer.i),
                                   !.i = @ + 1]
              ELSE streamer' = [streamer EXCEPT !.samples = samples, !.pc = "failed"]

\* The end of the loop: stream_data returns Ok(()).
StreamFinish ==
    /\ streamer.pc = "streaming"
    /\ streamer.i = streamer.data.cases_by_report.cum.len
    /\ streamer' = [streamer EXCEPT !.pc = "done"]

----------------------------------------------------------------------------
(* Properties of SpecStreamer.                                              *)

\* The views behind the fields, and whether one of them has a value for key
\* k at slot i.
FieldViews ==
    IF streamer.population = None THEN src_vecs(streamer.data)
    ELSE Append(src_vecs(streamer.data), unwrap(streamer.population))

HasValue(k, i) == \E n \in 1..Len(FieldViews) : get_value(FieldViews[n], k, i) # None

\* The keys of the key set, and the number of lines posted for k at slot i.
KeysetKeys == {streamer.keyset[n].k : n \in 1..Len(streamer.keyset)}

LinesOf(k, i) ==
    Cardinality({n \in 1..Len(streamer.posted) :
                    streamer.posted[n].k = k /\ streamer.posted[n].i = i})

\* C24: the streamer emits one line for every (key, date) for which a field
\* view yields a value, and none for a (key, date) for which every field
\* view is absent (two keys and three dates with one value absent give 5
\* lines, not 6).
C24_LinePerValue ==
    /\ streamer.pc = "done" =>
          \A k \in KeysetKeys, i \in 0..(streamer.data.cases_by_report.cum.len - 1) :
              LinesOf(k, i) = IF HasValue(k, i) THEN 1 ELSE 0
    /\ streamer.pc = "panicked" =>
          \A k \in KeysetKeys, i \in 0..(streamer.data.cases_by_report.cum.len - 1) :
              ~HasValue(k, i)

----------------------------------------------------------------------------
(* src/src/destatis.rs: DestatisDeathHistoric::from_sorted_slice.  The      *)
(* samples are whole numbers; the mean is kept as its numerator and          *)
(* denominator and the median of an even slice as the sum of its two         *)
(* elements over 2.                                                          *)

\* sl[index] of a slice: a panic outside 0 .. len-1.
slice_index_panics(sl, index) == index < 0 \/ index >= Len(sl)

\* from_sorted_slice: sum after the first n elements of the slice.
RECURSIVE sum_of_slice(_, _)
sum_of_slice(sl, n) == IF n = 0 THEN 0 ELSE sum_of_slice(sl, n - 1) + sl[n]

\* pub fn from_sorted_slice(month, sl)
from_sorted_slice(month, sl) ==
    LET aborted == [panicked |-> TRUE, month |-> month] IN
    IF ~(Len(sl) >= 1) THEN aborted
    ELSE IF \E n \in 2..Len(sl) : ~(sl[n] >= sl[n - 1]) THEN aborted
    ELSE LET sum == sum_of_slice(sl, Len(sl)) IN
         IF Len(sl) % 2 = 0
         THEN IF \/ slice_index_panics(sl, Len(sl) \div 2)
                 \/ slice_index_panics(sl, (Len(sl) \div 2) + 1)
              THEN aborted
              ELSE [panicked |-> FALSE, month |-> month, min |-> sl[1],
                    mean |-> <<sum, Len(sl)>>,
                    median |-> <<sl[(Len(sl) \div 2) + 1] + sl[(Len(sl) \div 2) + 2], 2>>,
                    max |-> sl[Len(sl)], sum |-> sum]
         ELSE [panicked |-> FALSE, month |-> month, min |-> sl[1],
               mean |-> <<sum, Len(sl)>>,
               median |-> <<sl[(Len(sl) \div 2) + 1], 1>>,
               max |-> sl[Len(sl)], sum |-> sum]

----------------------------------------------------------------------------
(* SpecHistoric: write_pre_pandemics hands the samples of a month to         *)
(* from_sorted_slice.                                                        *)

\* The samples of a month: every sequence of at most MaxSamples values,
\* sorted or not.
SampleSlices == UNION {[1..n -> 0..MaxVal] : n \in 0..MaxSamples}

HistoricInit ==
    \E index \in {0, 11}, sl \in SampleSlices :
        historic = [op |-> "new", index |-> index, sl |-> sl]

FromSortedSlice ==
    /\ historic.op = "new"
    /\ historic' = [op |-> "from_sorted_slice", index |-> historic.index, sl |-> historic.sl,
                    res |-> from_sorted_slice(historic.index + 1, historic.sl)]

----------------------------------------------------------------------------
(* Properties of SpecHistoric.                                              *)

Ascending(sl) == \A n \in 2..Len(sl) : sl[n - 1] <= sl[n]

\* C25: from_sorted_slice never indexes outside its input: for every
\* non-empty ascending slice, of even or odd length, it returns a summary
\* without panicking.
C25_SummaryWithoutPanic ==
    (historic.op = "from_sorted_slice" /\ Len(historic.sl) >= 1 /\ Ascending(historic.sl))
        => ~historic.res.panicked

----------------------------------------------------------------------------
(* SpecPriming: rki_diff run on no artifact with one (snapshot, date) pair: *)
(* main primes the empty PartialDiffData with the snapshot and then merges   *)
(* the same snapshot, record by record.                                      *)

PrimingKey == <<1001, "A00-A04", "M">>

\* The records of the snapshot: report dates of the calendar, retractions
\* with counts below zero and the other flags with counts above.
PrimingRecords ==
    {InfectionRecord(PrimingKey, rd, cc, <<"NotApplicable", 0, "NotApplicable", 0>>) :
        rd \in start..(end_ - 1),
        cc \in {<<"NewlyReported", 1>>, <<"Retracted", -1>>, <<"Retracted", -2>>,
                <<"Consistent", 1>>}}
    \cup {InfectionRecord(PrimingKey, rd, <<"NotApplicable", 0>>,
                          <<"Retracted", -1, "Retracted", -2>>) : rd \in start..(end_ - 1)}

\* The snapshot file: one, two or three records in any order.
PrimingSnapshots ==
    {<<a>> : a \in PrimingRecords}
    \cup {<<a, b>> : a \in PrimingRecords, b \in PrimingRecords}
    \cup {<<a, b, c>> : a \in PrimingRecords, b \in PrimingRecords, c \in PrimingRecords}

PrimingInit ==
    \E newfile \in PrimingSnapshots, d \in start..(end_ - 1) :
        priming = [pc |-> "pairs", snapshot |-> newfile, date |-> d, pos |-> 0,
                   counters |-> PartialDiffData_new(start, end_),
                   before |-> PartialDiffData_new(start, end_)]

\* main: found_anything is false, so the snapshot primes the data.
PrimingPrime ==
    /\ priming.pc = "pairs"
    /\ LET r == prime(priming.counters, priming.snapshot) IN
       priming' = [priming EXCEPT !.pc = IF r.panicked THEN "failed" ELSE "merging",
                                  !.counters = IF r.panicked THEN @ ELSE r.d,
                                  !.before = IF r.panicked THEN @ ELSE r.d]

\* One pass of merge_new's loop over the same snapshot.
PrimingMerge ==
    /\ priming.pc = "merging" /\ priming.pos < Len(priming.snapshot)
    /\ LET r == submit(priming.counters, priming.date, priming.snapshot[priming.pos + 1]) IN
       priming' = [priming EXCEPT
                      !.pc = IF r.panicked THEN "failed"
                             ELSE IF priming.pos + 1 = Len(priming.snapshot) THEN "done"
                             ELSE "merging",
                      !.counters = IF r.panicked THEN @ ELSE r.d,
                      !.before = priming.counters,
                      !.pos = @ + 1]

----------------------------------------------------------------------------
(* Properties of SpecPriming.                                               *)

\* The record merged last, and the slot of its report date.
MergedRecord == priming.snapshot[priming.pos]

MergedSlot == unwrap(date_index(priming.counters.cases_by_pub, MergedRecord.report_date))

\* A retraction of the record merged last took its count from the slot of
\* its report date of the store, and from no other slot.
CancelledAtReportDate(flag, count, ts_before, ts_after) ==
    flag = "Retracted" =>
        \A i \in 0..(ts_after.len - 1) :
            ValueAt(ts_after, RecKey(MergedRecord), i)
                = ValueAt(ts_before, RecKey(MergedRecord), i)
                  + (IF i = MergedSlot THEN count ELSE 0)

RetractionsCancelled ==
    /\ priming.pc # "failed"
    /\ (priming.pos >= 1 /\ priming.pc \in {"merging", "done"}) =>
          /\ CancelledAtReportDate(MergedRecord.case, MergedRecord.case_count,
                                   priming.before.cases_by_pub, priming.counters.cases_by_pub)
          /\ CancelledAtReportDate(MergedRecord.death, MergedRecord.death_count,
                                   priming.before.deaths_by_pub, priming.counters.deaths_by_pub)
          /\ CancelledAtReportDate(MergedRecord.recovered, MergedRecord.recovered_count,
                                   priming.before.recovered_by_pub,
                                   priming.counters.recovered_by_pub)

\* C27 as stated: priming the empty data with a snapshot and merging the
\* same snapshot (dates in range, retraction counts <= 0, other counts >= 0)
\* cancels every retraction at the slot of its own report date, in any order
\* of the records, and the run does not abort.
C27_PrimedRetractionsCancel == priming.pc # "idle" => RetractionsCancelled

\* No newly reported case of the snapshot was reported after the day it is
\* merged for.
ReportedByMergeDate ==
    \A n \in 1..Len(priming.snapshot) :
        priming.snapshot[n].case = "NewlyReported" =>
            priming.snapshot[n].report_date <= priming.date

\* C27 amended: the same, for a snapshot in which no newly reported case has
\* a report date after the day the snapshot is merged for.
C27_PrimedRetractionsCancelByMergeDate ==
    (priming.pc # "idle" /\ ReportedByMergeDate) => RetractionsCancelled

\* C27 witness: two retractions of different counts and a consistent case
\* of one report date were primed and merged; the slot is left with the
\* consistent case.
C27_Witness ==
    /\ priming.pc = "done" /\ Len(priming.snapshot) = 3 /\ ReportedByMergeDate
    /\ priming.snapshot[1].case = "Retracted" /\ priming.snapshot[2].case = "Consistent"
    /\ priming.snapshot[3].case = "Retracted"
    /\ priming.snapshot[1].case_count < priming.snapshot[3].case_count
    /\ \A n \in 1..3 : priming.snapshot[n].report_date = start
    /\ ValueAt(priming.counters.cases_by_pub, PrimingKey, 0) = 1
    /\ ValueAt(priming.before.cases_by_pub, PrimingKey, 0) = 2

----------------------------------------------------------------------------
(* SpecRegroup: a d1 store, a key function, and the two ways to a rekeyed   *)
(* CounterGroup: from_d1 then CounterGroup::rekeyed, or TimeSeries::rekeyed  *)
(* then from_d1.                                                            *)

\* CounterGroup::rekeyed keeping the unshifted weekly store as d7s7.
group_rekeyed_d7_twice(g, f) ==
    [panicked |-> g.panicked, cum |-> rekeyed(g.cum, f), d1 |-> rekeyed(g.d1, f),
     d7 |-> rekeyed(g.d7, f), d7s7 |-> rekeyed(g.d7, f)]

\* CounterGroup::rekeyed: each of the four stores rekeyed by f.
group_rekeyed(g, f) ==
    [panicked |-> g.panicked, cum |-> rekeyed(g.cum, f), d1 |-> rekeyed(g.d1, f),
     d7 |-> rekeyed(g.d7, f), d7s7 |-> rekeyed(g.d7s7, f)]

\* A key function that maps every key to None.
drop_all == [id \in DistrictKeys |-> None]

RegroupFunctions == KeyFunctions \cup {drop_all}

\* The daily vectors of a key: no count, a count on the first day, or two on
\* the first day and one on the last day but one.
DailyVectors(len) ==
    {[i \in 1..len |-> 0],
     [i \in 1..len |-> IF i = 1 THEN 1 ELSE 0],
     [i \in 1..len |-> IF i = 1 THEN 2 ELSE IF i = len - 1 THEN 1 ELSE 0]}

\* The orders in which up to three district keys got their vectors.
KeyOrders ==
    {ks \in UNION {[1..n -> DistrictKeys] : n \in 0..MaxRegroupKeys} :
        \A a, b \in 1..Len(ks) : a # b => ks[a] # ks[b]}

KeyedStore(len, ks, vecs) ==
    [start |-> global_start_date, len |-> len,
     keys |-> [k \in {ks[n] : n \in 1..Len(ks)} |-> (CHOOSE n \in 1..Len(ks) : ks[n] = k) - 1],
     time_series |-> vecs]

RegroupInit ==
    \E len \in GroupLens, ks \in KeyOrders, f \in RegroupFunctions :
        \E vecs \in [1..Len(ks) -> DailyVectors(len)] :
            regroup = [op |-> "new", d1 |-> KeyedStore(len, ks, vecs), f |-> f,
                       derived_first |-> None, rekeyed_first |-> None]

\* CounterGroup::from_d1(d1).rekeyed(f); an abort of from_d1 ends the run.
DeriveThenRekey ==
    /\ regroup.op = "new"
    /\ regroup.derived_first = None
    /\ regroup' = [regroup EXCEPT !.derived_first =
                      Some(group_rekeyed(from_d1(regroup.d1), regroup.f))]

\* CounterGroup::from_d1(d1.rekeyed(f)).
RekeyThenDerive ==
    /\ regroup.op = "new"
    /\ regroup.rekeyed_first = None
    /\ regroup' = [regroup EXCEPT !.rekeyed_first =
                      Some(from_d1(rekeyed(regroup.d1, regroup.f)))]

----------------------------------------------------------------------------
(* Properties of CounterGroup::rekeyed (SpecRegroup).                       *)

BothWays == regroup.op = "new" /\ regroup.derived_first # None /\ regroup.rekeyed_first # None

\* The same keys and the same value at every slot of every key.
SameSeries(a, b) == a.start = b.start /\ a.len = b.len /\ Content(a) = Content(b)

\* C28: whenever from_d1(d1) is built, from_d1(d1).rekeyed(f) and
\* from_d1(d1.rekeyed(f)) are both built and have the same cum, d1, d7 and
\* d7s7 series: the same keys and the same value at every slot.
C28_DerivationCommutesWithRekeying ==
    (BothWays /\ ~unwrap(regroup.derived_first).panicked) =>
        LET a == unwrap(regroup.derived_first)
            b == unwrap(regroup.rekeyed_first)
        IN  /\ ~b.panicked
            /\ SameSeries(a.cum, b.cum)
            /\ SameSeries(a.d1, b.d1)
            /\ SameSeries(a.d7, b.d7)
            /\ SameSeries(a.d7s7, b.d7s7)

\* Both ways taken on a store where remap_berlin merges two counted Berlin
\* districts into Berlin, with a weekly sum that is not zero.
C28_Witness ==
    /\ BothWays
    /\ regroup.f = remap_berlin
    /\ ~unwrap(regroup.derived_first).panicked
    /\ {11001, 11002} \subseteq keys(regroup.d1)
    /\ \E i \in 1..regroup.d1.len :
           /\ unwrap(get(regroup.d1, 11001))[i] > 0
           /\ unwrap(get(regroup.d1, 11002))[i] > 0
    /\ \E i \in 1..regroup.d1.len :
           unwrap(get(unwrap(regroup.derived_first).d7, 11000))[i] > 0

----------------------------------------------------------------------------
(* SpecLoadDiff: to_influx loading the rows of the diff artifact into a     *)
(* fresh ParboiledCaseData, then remapping and cooking it.                  *)

\* districts.csv as the diff loader sees it: two districts of Berlin.
diff_district_map == (11001 :> 11) @@ (11002 :> 11)

ParboiledCaseData_new(s, e) ==
    [cases_by_pub |-> TimeSeries_new(s, e),
     case_delay_total |-> TimeSeries_new(s, e),
     cases_delayed |-> TimeSeries_new(s, e),
     deaths_by_pub |-> TimeSeries_new(s, e),
     recovered_by_pub |-> TimeSeries_new(s, e),
     cases_by_pubrep_d7 |-> TimeSeries_new(s, e),
     cases_retracted |-> TimeSeries_new(s, e)]

\* ParboiledCaseData::submit: six columns of the row are added at the slot
\* of its date; recovered_by_pub is not written.
ParboiledCaseData_submit(d, rec) ==
    IF rec.district_id \notin DOMAIN diff_district_map THEN Panicked(d)
    ELSE LET k == <<diff_district_map[rec.district_id], rec.district_id, rec.age_group,
                    rec.sex>>
             ref == date_index(d.cases_by_pub, rec.date)
         IN  IF ref = None THEN Panicked(d)
             ELSE LET ref_index == unwrap(ref)
                  IN  Ok([d EXCEPT
                            !.cases_by_pub = add_at(@, k, ref_index, rec.cases),
                            !.case_delay_total = add_at(@, k, ref_index, rec.delay_total),
                            !.cases_delayed = add_at(@, k, ref_index, rec.cases_delayed),
                            !.deaths_by_pub = add_at(@, k, ref_index, rec.deaths),
                            !.cases_by_pubrep_d7 = add_at(@, k, ref_index, rec.cases_rep_d7),
                            !.cases_retracted = add_at(@, k, ref_index, rec.cases_retracted)])

\* The closure of load_cooked_case_data: remap_berlin on the district of a key.
remap_case_key(ts) ==
    [k \in keys(ts) |->
        Some(<<k[1], IF k[2] >= 11000 /\ k[2] < 12000 THEN 11000 ELSE k[2], k[3], k[4]>>)]

ParboiledCaseData_remapped(d) ==
    [c \in DOMAIN d |-> rekeyed(d[c], remap_case_key(d[c]))]

\* CookedCaseData::cook, the stores that come from the diff artifact.
CookedCaseData_cook(parboiled_) ==
    [cases_by_pub |-> from_d1(parboiled_.cases_by_pub),
     case_delay_total |-> parboiled_.case_delay_total,
     cases_delayed |-> parboiled_.cases_delayed,
     deaths_by_pub |-> from_d1(parboiled_.deaths_by_pub),
     recovered_by_pub |-> from_d1(parboiled_.recovered_by_pub),
     cases_by_pubrep_d7 |-> parboiled_.cases_by_pubrep_d7,
     cases_retracted |-> parboiled_.cases_retracted]

LoadStart == global_start_date
LoadEnd == global_start_date + LoadDays

\* The count columns of a diff row: cases, deaths and recovered.
DiffCounts == {<<1, 0, 0>>, <<0, 1, 0>>, <<0, 0, 1>>, <<1, 1, 2>>}

\* Diff rows of the first day, the last day and the day after the calendar.
DiffRows ==
    {[date |-> d, district_id |-> id, age_group |-> "A00-A04", sex |-> "M",
      cases |-> c[1], deaths |-> c[2], recovered |-> c[3],
      delay_total |-> c[1], cases_delayed |-> c[1], late_cases |-> 0,
      cases_rep_d7 |-> c[1], cases_retracted |-> 0] :
        d \in {LoadStart, LoadEnd - 1, LoadEnd}, id \in DOMAIN diff_district_map,
        c \in DiffCounts}

LoadDiffInit ==
    parboiled = [op |-> "new", rows |-> <<>>, aborted |-> FALSE,
                 data |-> ParboiledCaseData_new(LoadStart, LoadEnd), cooked |-> None]

\* load_diff_data: one pass of the loop over the rows.
LoadDiffRow ==
    /\ parboiled.op \in {"new", "row"}
    /\ ~parboiled.aborted
    /\ Len(parboiled.rows) < MaxDiffRows
    /\ \E rec \in DiffRows :
           LET r == ParboiledCaseData_submit(parboiled.data, rec)
           IN  parboiled' = [parboiled EXCEPT !.op = "row", !.rows = Append(@, rec),
                                              !.data = r.d, !.aborted = r.panicked]

\* load_cooked_case_data after the last row: remapped, then cook.
LoadCooked ==
    /\ parboiled.op \in {"new", "row"}
    /\ ~parboiled.aborted
    /\ parboiled' = [parboiled EXCEPT
                        !.op = "cooked",
                        !.cooked = Some(CookedCaseData_cook(
                                            ParboiledCaseData_remapped(parboiled.data)))]

----------------------------------------------------------------------------
(* Properties of the diff loader (SpecLoadDiff).                            *)

DiffRowKey(rec) ==
    <<diff_district_map[rec.district_id], rec.district_id, rec.age_group, rec.sex>>

\* The sum of a column over the loaded rows of key k and the date of slot i.
RECURSIVE ColumnSum(_, _, _, _)
ColumnSum(rows, column, k, i) ==
    IF rows = <<>> THEN 0
    ELSE ColumnSum(Tail(rows), column, k, i)
         + (IF DiffRowKey(Head(rows)) = k /\ Head(rows).date = LoadStart + i
            THEN Head(rows)[column] ELSE 0)

Accumulated(ts, column) ==
    \A n \in 1..Len(parboiled.rows), i \in 0..(LoadDays - 1) :
        LET k == DiffRowKey(parboiled.rows[n])
        IN  ValueAt(ts, k, i) = ColumnSum(parboiled.rows, column, k, i)

DiffLoaded == parboiled.op = "row" /\ ~parboiled.aborted

\* C29: after loading, every count store holds at slot date_index(row.date)
\* the sum of its column over the rows of that key and date: cases_by_pub the
\* cases, deaths_by_pub the deaths and recovered_by_pub the recovered values.
C29_CountColumnsAccumulated ==
    DiffLoaded =>
        /\ Accumulated(parboiled.data.cases_by_pub, "cases")
        /\ Accumulated(parboiled.data.deaths_by_pub, "deaths")
        /\ Accumulated(parboiled.data.recovered_by_pub, "recovered")

----------------------------------------------------------------------------
(* SpecAgeGroup: an AgeGroup written by its Display implementation and the  *)
(* text parsed back by AgeGroup::from_str, as src/rki.rs and as             *)
(* src/context.rs have it.                                                  *)

\* &s[from..to] of a string of one-byte characters (0-based, to exclusive);
\* the slice panics when from > to or to > len.
str_slice_panics(s, from, to) == from > to \/ to > Len(s)

str_slice(s, from, to) == SubSeq(s, from + 1, to)

starts_with(s, c) == Len(s) > 0 /\ s[1] = c

ends_with(s, c) == Len(s) > 0 /\ s[Len(s)] = c

\* str::split_once: the parts before and after the first c, or None.
split_once(s, c) ==
    IF \E i \in 1..Len(s) : s[i] = c
    THEN LET at == CHOOSE i \in 1..Len(s) : s[i] = c /\ \A j \in 1..(i - 1) : s[j] # c
         IN  Some(<<SubSeq(s, 1, at - 1), SubSeq(s, at + 1, Len(s))>>)
    ELSE None

\* The value of a string of decimal digits.
RECURSIVE digits_value(_)
digits_value(digits) ==
    IF digits = <<>> THEN 0
    ELSE 10 * digits_value(SubSeq(digits, 1, Len(digits) - 1))
         + (CHOOSE d \in 0..9 : DigitChars[d + 1] = digits[Len(digits)])

\* u16::from_str: an optional plus sign, then one digit or more, up to 65535.
u16_from_str(s) ==
    LET digits == IF starts_with(s, "+") THEN Tail(s) ELSE s
    IN  IF digits = <<>> THEN [ok |-> FALSE, err |-> "InvalidNumber"]
        ELSE IF \E i \in 1..Len(digits) : \A d \in 1..10 : DigitChars[d] # digits[i]
             THEN [ok |-> FALSE, err |-> "InvalidNumber"]
        ELSE IF digits_value(digits) > 65535 THEN [ok |-> FALSE, err |-> "InvalidNumber"]
        ELSE [ok |-> TRUE, v |-> digits_value(digits)]

ParseOk(low, high) == [panicked |-> FALSE, ok |-> TRUE, v |-> [low |-> low, high |-> high]]
ParseErr(e) == [panicked |-> FALSE, ok |-> FALSE, err |-> e]
ParsePanicked == [panicked |-> TRUE, ok |-> FALSE, err |-> "panic"]

\* The part of from_str after the open-ended branch, the same in both files.
from_str_bounded(s) ==
    LET parts == split_once(s, "-")
    IN  IF parts = None THEN ParseErr("NoSeparator")
        ELSE LET low == unwrap(parts)[1]
                 high0 == unwrap(parts)[2]
                 high == IF starts_with(high0, "A") THEN Tail(high0) ELSE high0
                 l == u16_from_str(low)
                 h == u16_from_str(high)
             IN  IF ~l.ok THEN ParseErr(l.err)
                 ELSE IF ~h.ok THEN ParseErr(h.err)
                 ELSE ParseOk(l.v, Some(h.v))

\* from_str with the number of the open-ended form cut from character
\* first on.
from_str_cut(s0, first) ==
    LET s == IF starts_with(s0, "A") THEN Tail(s0) ELSE s0
    IN  IF ends_with(s, "+")
        THEN IF str_slice_panics(s, first, Len(s) - 1) THEN ParsePanicked
             ELSE LET lower_bound == u16_from_str(str_slice(s, first, Len(s) - 1))
                  IN  IF lower_bound.ok THEN ParseOk(lower_bound.v, None)
                      ELSE ParseErr(lower_bound.err)
        ELSE from_str_bounded(s)

\* impl FromStr for AgeGroup of src/context.rs: num is &s[..(s.len()-1)].
context_from_str(s) == from_str_cut(s, 0)

\* impl FromStr for AgeGroup of src/rki.rs: num is &s[1..(s.len()-1)].
from_str(s) == from_str_cut(s, 1)

\* impl Display for AgeGroup, the same in both files.
AgeGroup_fmt(g) ==
    <<"A">> \o display_zero_padded(g.low, 2)
        \o (IF g.high # None THEN <<"-", "A">> \o display_zero_padded(unwrap(g.high), 2)
            ELSE <<"+">>)

\* Ages: every age up to MaxAge and the largest u16.
Ages == 0..MaxAge \cup {65535}

AgeGroups == {[low |-> l, high |-> h] : l \in Ages, h \in {None} \cup {Some(a) : a \in Ages}}

AgeGroupInit ==
    \E g \in AgeGroups : agegroup = [op |-> "new", value |-> g, text |-> <<>>,
                                     parsed |-> ParseErr("none")]

AgeGroupDisplay ==
    /\ agegroup.op = "new"
    /\ agegroup' = [agegroup EXCEPT !.op = "fmt", !.text = AgeGroup_fmt(agegroup.value)]

AgeGroupFromStr ==
    /\ agegroup.op = "fmt"
    /\ agegroup' = [agegroup EXCEPT !.op = "from_str", !.parsed = from_str(agegroup.text)]

AgeGroupContextFromStr ==
    /\ agegroup.op = "fmt"
    /\ agegroup' = [agegroup EXCEPT !.op = "context_from_str",
                                    !.parsed = context_from_str(agegroup.text)]

----------------------------------------------------------------------------
(* Properties of AgeGroup (SpecAgeGroup).                                   *)

RoundTrip == agegroup.parsed = ParseOk(agegroup.value.low, agegroup.value.high)

\* C30: for every AgeGroup value, bounded or open-ended, AgeGroup::from_str
\* of the text its Display implementation writes returns the same value.
C30_AgeGroupRoundTrip ==
    agegroup.op \in {"from_str", "context_from_str"} => RoundTrip

CalIdle ==
    cal = [ts |-> TimeSeries_new(start, start), op |-> "idle", arg |-> 0,
           res |-> None, back |-> None]

IngestIdle == ingest = [op |-> "idle"]

StoreIdle == store = [op |-> "idle"]

GroupIdle == group = [op |-> "idle"]

EngineIdle == SeriesIdle /\ StoreIdle /\ GroupIdle

LineIdle == line = [op |-> "idle"]

ClientIdle == client = [op |-> "idle"]

StreamerIdle == streamer = [op |-> "idle"]

HistoricIdle == historic = [op |-> "idle"]

AgeGroupIdle == agegroup = [op |-> "idle"]

RegroupIdle == regroup = [op |-> "idle"]

PrimingIdle == priming = [pc |-> "idle"]

ParboiledIdle == parboiled = [op |-> "idle"]

ToolIdle ==
    /\ LineIdle /\ ClientIdle /\ StreamerIdle /\ HistoricIdle /\ AgeGroupIdle /\ RegroupIdle
    /\ PrimingIdle /\ ParboiledIdle

----------------------------------------------------------------------------
(* The specifications.                                                      *)

Init == DiffInit /\ CalIdle /\ IngestIdle /\ EngineIdle /\ ToolIdle

Next ==
    \/ TryLoadExisting /\ UNCHANGED <<cal, ingest, engineVars, toolVars>>
    \/ Prime /\ UNCHANGED <<cal, ingest, engineVars, toolVars>>
    \/ OpenSnapshot /\ UNCHANGED <<cal, ingest, engineVars, toolVars>>
    \/ MergeRecord /\ UNCHANGED <<cal, ingest, engineVars, toolVars>>
    \/ Writeback /\ UNCHANGED <<cal, ingest, engineVars, toolVars>>

Spec == Init /\ [][Next]_vars

SpecDiff == Spec

CalNext ==
    \/ CalDateIndex /\ UNCHANGED <<diffVars, ingest, engineVars, toolVars>>
    \/ CalIndexDate /\ UNCHANGED <<diffVars, ingest, engineVars, toolVars>>

CalendarInit == CalInit /\ DiffIdle /\ IngestIdle /\ EngineIdle /\ ToolIdle

SpecCalendar == CalendarInit /\ [][CalNext]_vars

IngestNext ==
    \/ SubmitHospitalization /\ UNCHANGED <<diffVars, cal, engineVars, toolVars>>
    \/ LoadICURow /\ UNCHANGED <<diffVars, cal, engineVars, toolVars>>
    \/ SubmitCase /\ UNCHANGED <<diffVars, cal, engineVars, toolVars>>
    \/ SubmitDiff /\ UNCHANGED <<diffVars, cal, engineVars, toolVars>>

IngestStart == IngestInit /\ DiffIdle /\ CalIdle /\ EngineIdle /\ ToolIdle

SpecIngest == IngestStart /\ [][IngestNext]_vars

SeriesNext ==
    \/ SeriesCumsum /\ UNCHANGED <<diffVars, cal, ingest, store, group, toolVars>>
    \/ SeriesDiff /\ UNCHANGED <<diffVars, cal, ingest, store, group, toolVars>>
    \/ SeriesShiftFwd /\ UNCHANGED <<diffVars, cal, ingest, store, group, toolVars>>
    \/ SeriesUnrolled /\ UNCHANGED <<diffVars, cal, ingest, store, group, toolVars>>

SeriesStart == SeriesInit /\ DiffIdle /\ CalIdle /\ IngestIdle /\ StoreIdle /\ GroupIdle /\ ToolIdle

SpecSeries == SeriesStart /\ [][SeriesNext]_vars

StoreNext ==
    \/ StoreGetOrCreate /\ UNCHANGED <<diffVars, cal, ingest, series, group, toolVars>>
    \/ StoreCount /\ UNCHANGED <<diffVars, cal, ingest, series, group, toolVars>>
    \/ StoreSynthesize /\ UNCHANGED <<diffVars, cal, ingest, series, group, toolVars>>
    \/ StoreCumsum /\ UNCHANGED <<diffVars, cal, ingest, series, group, toolVars>>
    \/ StoreDiff /\ UNCHANGED <<diffVars, cal, ingest, series, group, toolVars>>
    \/ StoreShiftFwd /\ UNCHANGED <<diffVars, cal, ingest, series, group, toolVars>>
    \/ StoreRfillZeroes /\ UNCHANGED <<diffVars, cal, ingest, series, group, toolVars>>
    \/ StoreAdd /\ UNCHANGED <<diffVars, cal, ingest, series, group, toolVars>>
    \/ StoreCheckedAddSigned /\ UNCHANGED <<diffVars, cal, ingest, series, group, toolVars>>
    \/ StoreRekeyed /\ UNCHANGED <<diffVars, cal, ingest, series, group, toolVars>>
    \/ StoreUnrolled /\ UNCHANGED <<diffVars, cal, ingest, series, group, toolVars>>

StoreBegin == StoreInit /\ DiffIdle /\ CalIdle /\ IngestIdle /\ SeriesIdle /\ GroupIdle /\ ToolIdle

SpecStore == StoreBegin /\ [][StoreNext]_vars

GroupNext ==
    \/ FromD1 /\ UNCHANGED <<diffVars, cal, ingest, series, store, toolVars>>
    \/ FromD7 /\ UNCHANGED <<diffVars, cal, ingest, series, store, toolVars>>

GroupStart == GroupInit /\ DiffIdle /\ CalIdle /\ IngestIdle /\ SeriesIdle /\ StoreIdle /\ ToolIdle

SpecGroup == GroupStart /\ [][GroupNext]_vars

ReadoutNext ==
    \/ WriteMeasurement /\ UNCHANGED <<diffVars, cal, ingest, engineVars, client, streamer, historic, parboiled, agegroup, regroup, priming>>
    \/ WriteName /\ UNCHANGED <<diffVars, cal, ingest, engineVars, client, streamer, historic, parboiled, agegroup, regroup, priming>>
    \/ EncodeTimestamp /\ UNCHANGED <<diffVars, cal, ingest, engineVars, client, streamer, historic, parboiled, agegroup, regroup, priming>>

ReadoutStart ==
    /\ LineInit /\ DiffIdle /\ CalIdle /\ IngestIdle /\ EngineIdle
    /\ ClientIdle /\ StreamerIdle /\ HistoricIdle /\ ParboiledIdle /\ AgeGroupIdle /\ RegroupIdle /\ PrimingIdle

SpecReadout == ReadoutStart /\ [][ReadoutNext]_vars

ClientNext ==
    \/ Post /\ UNCHANGED <<diffVars, cal, ingest, engineVars, line, streamer, historic, parboiled, agegroup, regroup, priming>>

ClientStart ==
    /\ ClientInit /\ DiffIdle /\ CalIdle /\ IngestIdle /\ EngineIdle
    /\ LineIdle /\ StreamerIdle /\ HistoricIdle /\ ParboiledIdle /\ AgeGroupIdle /\ RegroupIdle /\ PrimingIdle

SpecClient == ClientStart /\ [][ClientNext]_vars

StreamerNext ==
    \/ Cook /\ UNCHANGED <<diffVars, cal, ingest, engineVars, line, client, historic, parboiled, agegroup, regroup, priming>>
    \/ StreamBegin /\ UNCHANGED <<diffVars, cal, ingest, engineVars, line, client, historic, parboiled, agegroup, regroup, priming>>
    \/ StreamDate /\ UNCHANGED <<diffVars, cal, ingest, engineVars, line, client, historic, parboiled, agegroup, regroup, priming>>
    \/ StreamFinish /\ UNCHANGED <<diffVars, cal, ingest, engineVars, line, client, historic, parboiled, agegroup, regroup, priming>>

StreamerStart ==
    /\ StreamerInit /\ DiffIdle /\ CalIdle /\ IngestIdle /\ EngineIdle
    /\ LineIdle /\ ClientIdle /\ HistoricIdle /\ ParboiledIdle /\ AgeGroupIdle /\ RegroupIdle /\ PrimingIdle

SpecStreamer == StreamerStart /\ [][StreamerNext]_vars

HistoricNext ==
    \/ FromSortedSlice /\ UNCHANGED <<diffVars, cal, ingest, engineVars, line, client, streamer, parboiled, agegroup, regroup, priming>>

HistoricStart ==
    /\ HistoricInit /\ DiffIdle /\ CalIdle /\ IngestIdle /\ EngineIdle
    /\ LineIdle /\ ClientIdle /\ StreamerIdle /\ ParboiledIdle /\ AgeGroupIdle /\ RegroupIdle /\ PrimingIdle

SpecHistoric == HistoricStart /\ [][HistoricNext]_vars

PrimingNext ==
    \/ PrimingPrime /\ UNCHANGED <<diffVars, cal, ingest, engineVars, line, client, streamer, historic, parboiled, agegroup, regroup>>
    \/ PrimingMerge /\ UNCHANGED <<diffVars, cal, ingest, engineVars, line, client, streamer, historic, parboiled, agegroup, regroup>>

PrimingStart ==
    /\ PrimingInit /\ DiffIdle /\ CalIdle /\ IngestIdle /\ EngineIdle
    /\ LineIdle /\ ClientIdle /\ StreamerIdle /\ HistoricIdle /\ ParboiledIdle /\ AgeGroupIdle /\ RegroupIdle

SpecPriming == PrimingStart /\ [][PrimingNext]_vars

RegroupNext ==
    \/ DeriveThenRekey /\ UNCHANGED <<diffVars, cal, ingest, engineVars, line, client,
                                       streamer, historic, parboiled, agegroup, priming>>
    \/ RekeyThenDerive /\ UNCHANGED <<diffVars, cal, ingest, engineVars, line, client,
                                       streamer, historic, parboiled, agegroup, priming>>

RegroupStart ==
    /\ DiffIdle /\ CalIdle /\ IngestIdle /\ EngineIdle /\ LineIdle /\ ClientIdle
    /\ StreamerIdle /\ HistoricIdle /\ ParboiledIdle /\ AgeGroupIdle /\ PrimingIdle /\ RegroupInit

SpecRegroup == RegroupStart /\ [][RegroupNext]_vars

LoadDiffNext ==
    \/ LoadDiffRow /\ UNCHANGED <<diffVars, cal, ingest, engineVars, line, client, streamer, historic, agegroup, regroup, priming>>
    \/ LoadCooked /\ UNCHANGED <<diffVars, cal, ingest, engineVars, line, client, streamer, historic, agegroup, regroup, priming>>

LoadDiffStart ==
    /\ LoadDiffInit /\ DiffIdle /\ CalIdle /\ IngestIdle /\ EngineIdle
    /\ LineIdle /\ ClientIdle /\ StreamerIdle /\ HistoricIdle /\ AgeGroupIdle /\ RegroupIdle /\ PrimingIdle

SpecLoadDiff == LoadDiffStart /\ [][LoadDiffNext]_vars

AgeGroupNext ==
    \/ AgeGroupDisplay /\ UNCHANGED <<diffVars, cal, ingest, engineVars, line, client, streamer, historic, parboiled, regroup, priming>>
    \/ AgeGroupFromStr /\ UNCHANGED <<diffVars, cal, ingest, engineVars, line, client, streamer, historic, parboiled, regroup, priming>>
    \/ AgeGroupContextFromStr /\ UNCHANGED <<diffVars, cal, ingest, engineVars, line, client, streamer, historic, parboiled, regroup, priming>>

AgeGroupStart ==
    /\ AgeGroupInit /\ DiffIdle /\ CalIdle /\ IngestIdle /\ EngineIdle
    /\ LineIdle /\ ClientIdle /\ StreamerIdle /\ HistoricIdle /\ ParboiledIdle /\ RegroupIdle /\ PrimingIdle

SpecAgeGroup == AgeGroupStart /\ [][AgeGroupNext]_vars

============================================================================
